---- MODULE Spec2Model ----
(***************************************************************************)
(* Model of the BoardGameGeek API client of CardboardMaid                  *)
(* (src/src/services/bgg-api.ts with the parsers of src/src/lib/           *)
(* xml-parser.ts it calls): the retrying fetcher fetchWithRetry and the    *)
(* client operations validateUsername, getUserCollection, getGamesInfo and *)
(* getGameInfo built on it.  One client operation runs per behaviour; the  *)
(* environment chooses the outcome of every fetch() call.                  *)
(*                                                                         *)
(* Five specifications share the variables:                                *)
(*   Spec        one client operation, or one direct fetchWithRetry call   *)
(*   FetcherSpec one direct fetchWithRetry call whose fetch() calls are    *)
(*               answered and whose timers fire (weak fairness)            *)
(*   PairSpec    two fetchWithRetry calls whose steps interleave           *)
(*   LibSpec     one call of a function of src/src/lib on an argument:     *)
(*               the converter xmlElementToJson and the weighted pick      *)
(*               (xml-parser.ts), the mappers and merges of game-mapper.ts *)
(*   PageSpec    the pick handlers of pages/Collection.tsx under changes   *)
(*               of the list shown                                         *)
(***************************************************************************)
EXTENDS Integers, Sequences, FiniteSets, TLC

(* ---------------------------------------------------------------------- *)
(* Program constants                                                      *)
(* ---------------------------------------------------------------------- *)

\* bgg-api.ts:114
MAX_RETRIES == 5

\* bgg-api.ts:115 (milliseconds)
INITIAL_RETRY_DELAY == 2000

\* bgg-api.ts:368
BATCH_SIZE == 20

\* bgg-api.ts:486, the argument of sleep() between two batches (milliseconds)
BATCH_PAUSE == 500

(* ---------------------------------------------------------------------- *)
(* Bounds of the model                                                    *)
(* ---------------------------------------------------------------------- *)

\* largest ceiling passed to a direct fetchWithRetry call
MaxCeiling == 5

\* longest id list passed to getGamesInfo
MaxIds == 45

\* ceilings and initial intervals tried on a direct fetchWithRetry call
Ceilings == 1..MaxCeiling
Intervals == {1, 3, INITIAL_RETRY_DELAY}

\* largest ceiling of two concurrent fetchWithRetry calls
MaxPairCeiling == 3

\* most child elements of the element given to the converter
MaxChildren == 3

\* longest rank list given to the mappers
MaxRanks == 3

\* longest list of games given to a merge
MaxGames == 3

\* longest list of detail records given to mergeGamesInfo
MaxInfos == 2

\* longest list of games given to mergePlays
MaxPlayedGames == 2

\* longest list of play records given to mergePlays
MaxPlays == 3

\* longest list of games given to pickWeightedRandomGame
MaxPick == 4

\* entries of the collection shown by the page
MaxEntries == 3

\* ceilings, initial intervals and fetch() answers of two concurrent calls
PairCeilings == 1..MaxPairCeiling
PairIntervals == {1, 3}
PairStatuses == {200, 202, 404, 503}
PairBodies == {"data", "processing"}
PairErrors == {"Failed to fetch"}

(* ---------------------------------------------------------------------- *)
(* The environment: what one fetch() call can answer                      *)
(* ---------------------------------------------------------------------- *)

\* HTTP statuses of a resolved fetch(): ready, processing, another 2xx,
\* two client errors, two server errors
Statuses == {200, 202, 204, 400, 404, 500, 503}

\* messages of a rejected fetch() (the TypeError texts of Chrome, Safari and
\* Firefox)
FetchErrors == {"Failed to fetch", "Load failed",
                "NetworkError when attempting to fetch resource."}

\* the body of a response that reaches a caller, by what the parsers make of it:
\*   data        well-formed XML carrying the endpoint's records
\*   empty       well-formed XML whose root carries no record
\*   error       well-formed XML carrying an <error> element
\*   processing  well-formed document whose html.body.p text says "processed"
\*   malformed   text that is not well-formed XML
Bodies == {"data", "empty", "error", "processing", "malformed"}

\* the body of a response fetchWithRetry does not hand to its caller
NoBody == "unread"

Ops == {"fetchWithRetry", "validateUsername", "getUserCollection",
        "getGamesInfo", "getGameInfo"}

\* usernames by what username.trim() leaves
Usernames == {"", "  ", "alice"}

\* the id lists given to getGamesInfo: lengths around the batch boundaries,
\* ascending and descending ids
IdCounts == {0, 1, BATCH_SIZE - 1, BATCH_SIZE, BATCH_SIZE + 1,
             2 * BATCH_SIZE, 2 * BATCH_SIZE + 1, 2 * BATCH_SIZE + 5, MaxIds}
GameIdLists == {[k \in 1..n |-> 100 + k] : n \in IdCounts}
               \cup {[k \in 1..n |-> 200 - k] : n \in IdCounts}

\* the id given to getGameInfo
SingleIds == {7}

VARIABLES
  op,           \* the client operation of this behaviour
  pc,           \* its position: start, awaitFetch, pause, gamesReturned, done
  username,     \* argument of validateUsername / getUserCollection
  gameIds,      \* argument of getGamesInfo
  result,       \* what the operation resolved to
  gamesResult,  \* what getGamesInfo resolved to inside getGameInfo
  i,            \* getGamesInfo: loop offset into gameIds
  allGames,     \* getGamesInfo: records accumulated so far
  log,          \* getGamesInfo: batch requests, completions and pauses, in order
  inFlight,     \* fetch() calls sent and not yet answered
  fpc,          \* fetchWithRetry: idle, fetch, sleep, returned, threw
  maxRetries,   \* fetchWithRetry: parameter
  initialDelay, \* fetchWithRetry: parameter
  attempt,      \* fetchWithRetry: local
  delay,        \* fetchWithRetry: local
  lastError,    \* fetchWithRetry: local ("" is null)
  response,     \* fetchWithRetry: the response returned
  thrown,       \* fetchWithRetry: the message of the error thrown
  fetchCalls,   \* fetch() calls of the current fetchWithRetry invocation
  sleeps,       \* lengths of its backoff sleeps, in order
  kinds,        \* kinds of the outcomes it retried on so far
  last,         \* outcome of its latest fetch() call
  answers,      \* two invocations: the answers the running one received
  cur,          \* two invocations: which one the fetcher variables hold (1, 2)
  susp,         \* two invocations: the frame of the one that is suspended
  call,         \* the pure function applied in this behaviour
  arg,          \* its argument
  ret,          \* its return value
  filtered,     \* collection page: filteredAndSortedGames
  pickedGame,   \* collection page: state pickedGame
  isModalOpen,  \* collection page: state isModalOpen
  invoked       \* collection page: the latest call of pickWeightedRandomGame

clientVars == <<op, pc, username, gameIds, result, gamesResult, i, allGames, log>>
fetcherVars == <<fpc, maxRetries, initialDelay, attempt, delay, lastError,
                 response, thrown, fetchCalls, sleeps, kinds, last, inFlight>>
pairVars == <<answers, cur, susp>>
pureVars == <<call, arg, ret>>
pageVars == <<filtered, pickedGame, isModalOpen, invoked>>
vars == <<clientVars, fetcherVars, pairVars, pureVars, pageVars>>

(* ---------------------------------------------------------------------- *)
(* Values                                                                 *)
(* ---------------------------------------------------------------------- *)

\* BggApiResult<T> (bgg-api.ts:21-23); an optional field that is not set is
\* "absent" (retryLater) or 0 (backoff); tag "thrown" is a rejected promise
Pending == [tag |-> "pending", error |-> "", retryLater |-> "absent",
            backoff |-> 0, data |-> <<>>]
Success(d) == [tag |-> "success", error |-> "", retryLater |-> "absent",
               backoff |-> 0, data |-> d]
Failure(e, rl, b) == [tag |-> "failure", error |-> e, retryLater |-> rl,
                      backoff |-> b, data |-> <<>>]
Rejected(e) == [tag |-> "thrown", error |-> e, retryLater |-> "absent",
                backoff |-> 0, data |-> <<>>]

\* a Response as far as the callers read it
NoResponse == [status |-> 0, body |-> NoBody]

\* the outcome of one fetch() call: a response status or a rejection message
NoOutcome == [status |-> 0, error |-> ""]
Resolved(s) == [status |-> s, error |-> ""]
RejectedWith(e) == [status |-> 0, error |-> e]

\* the messages fetchWithRetry builds (bgg-api.ts:152, 168, 176, 190)
ProcessingTimeout == "BGG API is still processing the request after maximum retries"
StatusAfterRetries(s, m) ==
  "BGG API returned status " \o ToString(s) \o " after " \o ToString(m) \o " retries"
UnknownStatus(s) == "BGG API returned status " \o ToString(s)
RetriesExceeded == "Maximum retries exceeded"

\* variant of StatusKind that sends a 4xx status down the retrying 5xx branch
StatusKindRetryClient(s) ==
  IF s = 200 THEN "ready"
  ELSE IF s = 202 THEN "processing"
  ELSE IF s >= 400 THEN "server"
  ELSE "unknown"

\* the branch of fetchWithRetry a status takes (bgg-api.ts:144-176)
StatusKind(s) ==
  IF s = 200 THEN "ready"
  ELSE IF s = 202 THEN "processing"
  ELSE IF s >= 400 /\ s < 500 THEN "client"
  ELSE IF s >= 500 THEN "server"
  ELSE "unknown"

(* ---------------------------------------------------------------------- *)
(* fetchWithRetry (bgg-api.ts:130-191)                                    *)
(* ---------------------------------------------------------------------- *)

\* the while condition and one fetch() call, or the throw behind the loop
\* (bgg-api.ts:139-141, 190), from attempt count a
LoopFrom(a, m, lastErr) ==
  IF a < m
    THEN /\ fpc' = "fetch"
         /\ fetchCalls' = fetchCalls + 1
         /\ inFlight' = inFlight + 1
         /\ thrown' = thrown
    ELSE /\ fpc' = "threw"
         /\ thrown' = (IF lastErr # "" THEN lastErr ELSE RetriesExceeded)
         /\ UNCHANGED <<fetchCalls, inFlight>>

\* the call: parameters and locals are set (bgg-api.ts:130-137), then the loop
FetchWithRetryCall(m, d) ==
  /\ maxRetries' = m
  /\ initialDelay' = d
  /\ attempt' = 0
  /\ delay' = d
  /\ lastError' = ""
  /\ response' = NoResponse
  /\ sleeps' = <<>>
  /\ kinds' = {}
  /\ last' = NoOutcome
  /\ IF 0 < m
       THEN /\ fpc' = "fetch"
            /\ fetchCalls' = 1
            /\ inFlight' = inFlight + 1
            /\ thrown' = ""
       ELSE /\ fpc' = "threw"
            /\ fetchCalls' = 0
            /\ thrown' = RetriesExceeded
            /\ UNCHANGED inFlight

\* variant of CeilingReached that allows one attempt more
CeilingReachedLate(a) == a + 1 > maxRetries

\* attempt++ and the ceiling test of one retry branch (bgg-api.ts:150-151,
\* 166-167, 181-182): TRUE when the branch throws
CeilingReached(a) == a + 1 >= maxRetries

\* await sleep(delay) of a retry branch (bgg-api.ts:154, 170, 185)
StartSleep(a) ==
  /\ fpc' = "sleep"
  /\ attempt' = a
  /\ sleeps' = Append(sleeps, delay)
  /\ UNCHANGED <<thrown, response>>

\* variant of Catch that rethrows without retrying
CatchRethrow(e, a) ==
  /\ lastError' = e
  /\ fpc' = "threw"
  /\ attempt' = a + 1
  /\ thrown' = e
  /\ UNCHANGED <<sleeps, response>>

\* the catch block (bgg-api.ts:177-187) entered with error e at attempt count a
Catch(e, a) ==
  /\ lastError' = e
  /\ IF CeilingReached(a)
       THEN /\ fpc' = "threw"
            /\ attempt' = a + 1
            /\ thrown' = e
            /\ UNCHANGED <<sleeps, response>>
       ELSE StartSleep(a + 1)

\* a retry branch inside the try block (bgg-api.ts:149-157, 165-173): its own
\* throw at the ceiling is caught by the catch block of the same iteration
RetryBranch(e) ==
  IF CeilingReached(attempt)
    THEN Catch(e, attempt + 1)
    ELSE /\ StartSleep(attempt + 1)
         /\ UNCHANGED lastError

\* return response (bgg-api.ts:145, 161)
ReturnResponse(s, b) ==
  /\ fpc' = "returned"
  /\ response' = [status |-> s, body |-> b]
  /\ UNCHANGED <<attempt, lastError, thrown, sleeps>>

\* fetch() resolved with status s and body b (bgg-api.ts:141-176)
FetchResolves(s, b) ==
  /\ fpc = "fetch"
  /\ inFlight' = inFlight - 1
  /\ last' = Resolved(s)
  /\ kinds' = IF StatusKind(s) \in {"ready", "client"}
                THEN kinds ELSE kinds \cup {StatusKind(s)}
  /\ CASE StatusKind(s) = "ready" -> ReturnResponse(s, b)
       [] StatusKind(s) = "processing" -> RetryBranch(ProcessingTimeout)
       [] StatusKind(s) = "client" -> ReturnResponse(s, b)
       [] StatusKind(s) = "server" -> RetryBranch(StatusAfterRetries(s, maxRetries))
       [] OTHER -> Catch(UnknownStatus(s), attempt)
  /\ UNCHANGED <<maxRetries, initialDelay, delay, fetchCalls>>

\* fetch() rejected with message e (bgg-api.ts:141, 177-187)
FetchRejects(e) ==
  /\ fpc = "fetch"
  /\ inFlight' = inFlight - 1
  /\ last' = RejectedWith(e)
  /\ kinds' = kinds \cup {"network"}
  /\ Catch(e, attempt)
  /\ UNCHANGED <<maxRetries, initialDelay, delay, fetchCalls>>

\* variant of NextDelay that grows the delay by the initial interval
NextDelayLinear(d) == d + initialDelay

\* delay *= 2 (bgg-api.ts:155, 171, 186)
NextDelay(d) == d * 2

\* the backoff sleep ended: the delay grows and the next iteration starts
\* (bgg-api.ts:155-156, 171-172, 186, 139-141)
BackoffElapsed ==
  /\ fpc = "sleep"
  /\ delay' = NextDelay(delay)
  /\ LoopFrom(attempt, maxRetries, lastError)
  /\ UNCHANGED <<maxRetries, initialDelay, attempt, lastError, response,
                 sleeps, kinds, last>>

(* ---------------------------------------------------------------------- *)
(* The parsers of xml-parser.ts, by body kind                             *)
(* ---------------------------------------------------------------------- *)

\* variant of XmlParseThrows in which a parse failure goes unnoticed
XmlNeverThrows(b) == FALSE

\* parseXmlToJson throws on a parsererror document (xml-parser.ts:10-21)
XmlParseThrows(b) == b = "malformed"
XmlParsingError == "XML parsing error: not well-formed"

\* isBggProcessing (xml-parser.ts:296-303): a parse failure is caught
IsBggProcessing(b) == IF XmlParseThrows(b) THEN FALSE ELSE b = "processing"

\* parseUserInfo (xml-parser.ts:82-106): <<>> is null; a payload without id and
\* name still yields an object, whose id and name are undefined ("")
ParseUserInfo(b, name) ==
  IF XmlParseThrows(b) THEN <<>>
  ELSE IF b = "error" THEN <<>>
  ELSE IF b = "data" THEN <<[id |-> "1", name |-> name]>>
  ELSE <<[id |-> "", name |-> ""]>>

\* parseCollection (xml-parser.ts:112-186): a parse failure is caught
ParseCollection(b) ==
  IF XmlParseThrows(b) THEN <<>>
  ELSE IF b = "data" THEN <<[objectid |-> 101], [objectid |-> 102]>>
  ELSE <<>>

(* ---------------------------------------------------------------------- *)
(* Client operations (bgg-api.ts:199-528)                                 *)
(* ---------------------------------------------------------------------- *)

\* variant of IsBlank that does not trim
IsBlankUntrimmed(u) == Len(u) = 0

\* !username || username.trim().length === 0 (bgg-api.ts:203, 292): nothing
\* but white space
IsBlank(u) == \A k \in 1..Len(u) : SubSeq(u, k, k) = " "

\* the client operation's frame while fetchWithRetry runs
FetcherFrame == UNCHANGED <<maxRetries, initialDelay, attempt, delay, lastError,
                            response, thrown, fetchCalls, sleeps, kinds, last,
                            inFlight, fpc>>

\* a direct call of fetchWithRetry with its parameters given
FetchWithRetryStart ==
  /\ op = "fetchWithRetry"
  /\ pc = "start"
  /\ \E m \in Ceilings, d \in Intervals : FetchWithRetryCall(m, d)
  /\ pc' = "awaitFetch"
  /\ UNCHANGED <<op, username, gameIds, result, gamesResult, i, allGames, log>>

\* String.prototype.includes
Includes(s, sub) ==
  \E k \in 1..(Len(s) - Len(sub) + 1) : SubSeq(s, k, k + Len(sub) - 1) = sub

\* variant of IsFetchFailure that takes every error for a fetch failure
IsFetchFailureAlways(e) == TRUE

\* isFetchFailure (bgg-api.ts:269-272)
IsFetchFailure(e) ==
  \/ Includes(e, "Failed to fetch")
  \/ Includes(e, "fetch")
  \/ Includes(e, "Network")
  \/ Includes(e, "CORS")

NotFound(u) == "User \"" \o u \o "\" not found on BoardGameGeek"
\* response.statusText: the reason phrase of the status line
StatusText(s) ==
  CASE s = 400 -> "Bad Request"
    [] s = 404 -> "Not Found"
    [] OTHER -> ""

\* `BGG API error: ${response.statusText} (${response.status})` (bgg-api.ts:236)
ApiError(s) == "BGG API error: " \o StatusText(s) \o " (" \o ToString(s) \o ")"
StillProcessing == Failure("BGG API is still processing", "true", 2)

\* the catch block of validateUsername (bgg-api.ts:265-279)
ValidateUsernameCatch(e) ==
  Failure(e, IF IsFetchFailure(e) THEN "false" ELSE "true", 0)

\* validateUsername up to its fetchWithRetry call (bgg-api.ts:199-222)
ValidateUsernameStart ==
  /\ op = "validateUsername"
  /\ pc = "start"
  /\ IF IsBlank(username)
       THEN /\ result' = Failure("Username cannot be empty", "absent", 0)
            /\ pc' = "done"
            /\ FetcherFrame
       ELSE /\ FetchWithRetryCall(MAX_RETRIES, INITIAL_RETRY_DELAY)
            /\ pc' = "awaitFetch"
            /\ UNCHANGED result
  /\ UNCHANGED <<op, username, gameIds, gamesResult, i, allGames, log>>

\* variant of ValidateUsernameResult that reads the body whatever the status
ValidateUsernameIgnoresStatus ==
  IF fpc = "threw" THEN ValidateUsernameCatch(thrown)
  ELSE IF IsBggProcessing(response.body) THEN StillProcessing
  ELSE IF ParseUserInfo(response.body, username) = <<>>
    THEN Failure(NotFound(username), "absent", 0)
  ELSE Success(ParseUserInfo(response.body, username))

\* validateUsername after fetchWithRetry settled (bgg-api.ts:222-279)
ValidateUsernameResult ==
  IF fpc = "threw" THEN ValidateUsernameCatch(thrown)
  ELSE IF response.status = 404 THEN Failure(NotFound(username), "absent", 0)
  ELSE IF response.status >= 400 /\ response.status < 500
    THEN Failure(ApiError(response.status), "absent", 0)
  ELSE IF IsBggProcessing(response.body) THEN StillProcessing
  ELSE IF ParseUserInfo(response.body, username) = <<>>
    THEN Failure(NotFound(username), "absent", 0)
  ELSE Success(ParseUserInfo(response.body, username))

ValidateUsernameResume ==
  /\ op = "validateUsername"
  /\ pc = "awaitFetch"
  /\ fpc \in {"returned", "threw"}
  /\ result' = ValidateUsernameResult
  /\ pc' = "done"
  /\ FetcherFrame
  /\ UNCHANGED <<op, username, gameIds, gamesResult, i, allGames, log>>

\* the catch block of getUserCollection (bgg-api.ts:337-346)
GetUserCollectionCatch(e) == Failure(e, "true", 0)

\* getUserCollection up to its fetchWithRetry call (bgg-api.ts:288-318)
GetUserCollectionStart ==
  /\ op = "getUserCollection"
  /\ pc = "start"
  /\ IF IsBlank(username)
       THEN /\ result' = Failure("Username cannot be empty", "absent", 0)
            /\ pc' = "done"
            /\ FetcherFrame
       ELSE /\ FetchWithRetryCall(MAX_RETRIES, INITIAL_RETRY_DELAY)
            /\ pc' = "awaitFetch"
            /\ UNCHANGED result
  /\ UNCHANGED <<op, username, gameIds, gamesResult, i, allGames, log>>

\* variant of GetUserCollectionResult without the processing check
GetUserCollectionUnchecked ==
  IF fpc = "threw" THEN GetUserCollectionCatch(thrown)
  ELSE Success(ParseCollection(response.body))

\* getUserCollection after fetchWithRetry settled (bgg-api.ts:318-346)
GetUserCollectionResult ==
  IF fpc = "threw" THEN GetUserCollectionCatch(thrown)
  ELSE IF IsBggProcessing(response.body) THEN StillProcessing
  ELSE Success(ParseCollection(response.body))

GetUserCollectionResume ==
  /\ op = "getUserCollection"
  /\ pc = "awaitFetch"
  /\ fpc \in {"returned", "threw"}
  /\ result' = GetUserCollectionResult
  /\ pc' = "done"
  /\ FetcherFrame
  /\ UNCHANGED <<op, username, gameIds, gamesResult, i, allGames, log>>

(* ---------------------------------------------------------------------- *)
(* getGamesInfo (bgg-api.ts:356-502) and getGameInfo (bgg-api.ts:508-528) *)
(* ---------------------------------------------------------------------- *)

Min(a, b) == IF a < b THEN a ELSE b

\* variant of Slice that includes the end offset
SliceInclusive(s, from, to) == SubSeq(s, from + 1, Min(to + 1, Len(s)))

\* Array.prototype.slice(from, to) on 0-based offsets (bgg-api.ts:373)
Slice(s, from, to) == SubSeq(s, from + 1, Min(to, Len(s)))

\* events of the log
Send(ids) == [ev |-> "send", ids |-> ids, ms |-> 0]
Done == [ev |-> "done", ids |-> <<>>, ms |-> 0]
Pause(t) == [ev |-> "pause", ids |-> <<>>, ms |-> t]

\* variant of FetcherSettled that goes on while the call is still running
FetcherNotAwaited == fpc # "idle"

\* the await of a fetchWithRetry call resumes once the call has settled
\* (bgg-api.ts:222, 318, 389)
FetcherSettled == fpc \in {"returned", "threw"}

\* variant of GetGamesInfoCatch that lets the error escape
GetGamesInfoRethrow(e) == Rejected(e)

\* variant of GetGamesInfoCatch that hands out the records gathered so far
GetGamesInfoPartial(e) ==
  [tag |-> "failure", error |-> e, retryLater |-> "true", backoff |-> 0,
   data |-> allGames]

\* the catch block of getGamesInfo (bgg-api.ts:494-501)
GetGamesInfoCatch(e) == Failure(e, "true", 0)

\* getGamesInfo returns r: to the caller of the operation, or into getGameInfo
\* (bgg-api.ts:511)
GamesReturn(r) ==
  IF op = "getGameInfo"
    THEN /\ gamesResult' = r
         /\ pc' = "gamesReturned"
         /\ UNCHANGED result
    ELSE /\ result' = r
         /\ pc' = "done"
         /\ UNCHANGED gamesResult

\* the for statement at offset off with games accumulated and log lg: the next
\* batch up to its fetchWithRetry call (bgg-api.ts:372-389), or the return
\* behind the loop (bgg-api.ts:490-493)
GamesLoop(ids, off, games, lg) ==
  /\ i' = off
  /\ allGames' = games
  /\ IF off < Len(ids)
       THEN /\ log' = Append(lg, Send(Slice(ids, off, off + BATCH_SIZE)))
            /\ FetchWithRetryCall(MAX_RETRIES, INITIAL_RETRY_DELAY)
            /\ pc' = "awaitFetch"
            /\ UNCHANGED <<result, gamesResult>>
       ELSE /\ log' = lg
            /\ GamesReturn(Success(games))
            /\ FetcherFrame

\* getGamesInfo from its entry to the first await (bgg-api.ts:356-389)
GetGamesInfoEntry(ids) ==
  /\ gameIds' = ids
  /\ IF Len(ids) = 0
       THEN /\ GamesReturn(Failure("No game IDs provided", "absent", 0))
            /\ FetcherFrame
            /\ UNCHANGED <<i, allGames, log>>
       ELSE GamesLoop(ids, 0, <<>>, <<>>)

GetGamesInfoStart ==
  /\ op = "getGamesInfo"
  /\ pc = "start"
  /\ GetGamesInfoEntry(gameIds)
  /\ UNCHANGED <<op, username>>

\* getGameInfo calls getGamesInfo([gameId]) (bgg-api.ts:511)
GetGameInfoStart ==
  /\ op = "getGameInfo"
  /\ pc = "start"
  /\ \E g \in SingleIds : GetGamesInfoEntry(<<g>>)
  /\ UNCHANGED <<op, username>>

\* json?.item || json?.items?.item (bgg-api.ts:402-404): the records of a
\* well-formed body, one per id asked for when the body carries records
BatchItems(b, ids) == IF b = "data" THEN ids ELSE <<>>

\* whether sleep(500) follows a batch whose records were pushed
\* (bgg-api.ts:485)
MoreBatches(off, ids) == off + BATCH_SIZE < Len(ids)

\* the loop body after a batch with records: push, then pause or go on
\* (bgg-api.ts:410-488)
AfterItems(items, lg) ==
  IF MoreBatches(i, gameIds)
    THEN /\ pc' = "pause"
         /\ log' = Append(lg, Pause(BATCH_PAUSE))
         /\ allGames' = allGames \o items
         /\ FetcherFrame
         /\ UNCHANGED <<i, result, gamesResult>>
    ELSE GamesLoop(gameIds, i + BATCH_SIZE, allGames \o items, lg)

\* the loop body after a batch without records: continue (bgg-api.ts:406-408)
AfterNoItems(lg) == GamesLoop(gameIds, i + BATCH_SIZE, allGames, lg)

\* getGamesInfo after the fetchWithRetry call of a batch settled
\* (bgg-api.ts:389-501)
GetGamesInfoResume ==
  /\ op \in {"getGamesInfo", "getGameInfo"}
  /\ pc = "awaitFetch"
  /\ FetcherSettled
  /\ LET lg == Append(log, Done)
         fail(r) == /\ GamesReturn(r)
                    /\ log' = lg
                    /\ FetcherFrame
                    /\ UNCHANGED <<i, allGames>>
     IN  IF fpc = "threw" THEN fail(GetGamesInfoCatch(thrown))
         ELSE IF IsBggProcessing(response.body) THEN fail(StillProcessing)
         ELSE IF XmlParseThrows(response.body)
           THEN fail(GetGamesInfoCatch(XmlParsingError))
         ELSE IF BatchItems(response.body, Slice(gameIds, i, i + BATCH_SIZE)) = <<>>
           THEN AfterNoItems(lg)
         ELSE AfterItems(BatchItems(response.body,
                                    Slice(gameIds, i, i + BATCH_SIZE)), lg)
  /\ UNCHANGED <<op, username, gameIds>>

\* the pause between two batches ended (bgg-api.ts:486, 372)
BatchPauseElapsed ==
  /\ pc = "pause"
  /\ GamesLoop(gameIds, i + BATCH_SIZE, allGames, log)
  /\ UNCHANGED <<op, username, gameIds>>

GameNotFound(g) == "Game with ID " \o ToString(g) \o " not found"

\* variant of GetGameInfoResult that builds a new failure from the error message
GetGameInfoRewrap(r, g) ==
  IF r.tag # "success" THEN Failure(r.error, "absent", 0)
  ELSE IF Len(r.data) = 0 THEN Failure(GameNotFound(g), "absent", 0)
  ELSE Success(<<r.data[1]>>)

\* getGameInfo after getGamesInfo resolved (bgg-api.ts:513-527)
GetGameInfoResult(r, g) ==
  IF r.tag # "success" THEN r
  ELSE IF Len(r.data) = 0 THEN Failure(GameNotFound(g), "absent", 0)
  ELSE Success(<<r.data[1]>>)

GetGameInfoResume ==
  /\ op = "getGameInfo"
  /\ pc = "gamesReturned"
  /\ result' = GetGameInfoResult(gamesResult, gameIds[1])
  /\ pc' = "done"
  /\ FetcherFrame
  /\ UNCHANGED <<op, username, gameIds, gamesResult, i, allGames, log>>

(* ---------------------------------------------------------------------- *)
(* Two concurrent fetchWithRetry invocations                              *)
(* ---------------------------------------------------------------------- *)

\* the parameters and locals of the running invocation (bgg-api.ts:130-137),
\* with what is recorded about it
Frame ==
  [fpc |-> fpc, maxRetries |-> maxRetries, initialDelay |-> initialDelay,
   attempt |-> attempt, delay |-> delay, lastError |-> lastError,
   response |-> response, thrown |-> thrown, fetchCalls |-> fetchCalls,
   sleeps |-> sleeps, kinds |-> kinds, last |-> last, answers |-> answers]

\* the frame of an invocation that was not called yet
IdleFrame ==
  [fpc |-> "idle", maxRetries |-> 0, initialDelay |-> 0, attempt |-> 0,
   delay |-> 0, lastError |-> "", response |-> NoResponse, thrown |-> "",
   fetchCalls |-> 0, sleeps |-> <<>>, kinds |-> {}, last |-> NoOutcome,
   answers |-> <<>>]

\* variant of Resume in which attempt is one counter of the module, not a
\* local of the call
ResumeSharedAttempt(f) ==
  /\ fpc' = f.fpc
  /\ maxRetries' = f.maxRetries
  /\ initialDelay' = f.initialDelay
  /\ attempt' = attempt
  /\ delay' = f.delay
  /\ lastError' = f.lastError
  /\ response' = f.response
  /\ thrown' = f.thrown
  /\ fetchCalls' = f.fetchCalls
  /\ sleeps' = f.sleeps
  /\ kinds' = f.kinds
  /\ last' = f.last
  /\ answers' = f.answers

\* the invocation with frame f runs next: every parameter and local is its
\* own (bgg-api.ts:130-137 declares them inside the function)
Resume(f) ==
  /\ fpc' = f.fpc
  /\ maxRetries' = f.maxRetries
  /\ initialDelay' = f.initialDelay
  /\ attempt' = f.attempt
  /\ delay' = f.delay
  /\ lastError' = f.lastError
  /\ response' = f.response
  /\ thrown' = f.thrown
  /\ fetchCalls' = f.fetchCalls
  /\ sleeps' = f.sleeps
  /\ kinds' = f.kinds
  /\ last' = f.last
  /\ answers' = f.answers

\* the event loop turns to the other invocation: between two awaits only one
\* of them runs
ContextSwitch ==
  /\ susp' = Frame
  /\ Resume(susp)
  /\ cur' = 3 - cur
  /\ UNCHANGED <<clientVars, inFlight, pureVars, pageVars>>

\* an answer of fetch() as an invocation receives it
Answer(s, e, b) == [status |-> s, error |-> e, body |-> b]

\* one of the two invocations is called
PairCall ==
  /\ fpc = "idle"
  /\ \E m \in PairCeilings, d \in PairIntervals : FetchWithRetryCall(m, d)
  /\ UNCHANGED <<clientVars, pairVars, pureVars, pageVars>>

\* the fetch() call of the running invocation is answered
PairFetchResolves(s, b) ==
  /\ FetchResolves(s, b)
  /\ answers' = Append(answers, Answer(s, "", b))
  /\ UNCHANGED <<clientVars, cur, susp, pureVars, pageVars>>

PairFetchRejects(e) ==
  /\ FetchRejects(e)
  /\ answers' = Append(answers, Answer(0, e, NoBody))
  /\ UNCHANGED <<clientVars, cur, susp, pureVars, pageVars>>

PairBackoffElapsed ==
  /\ BackoffElapsed
  /\ UNCHANGED <<clientVars, pairVars, pureVars, pageVars>>

(* ---------------------------------------------------------------------- *)
(* JavaScript values                                                      *)
(* ---------------------------------------------------------------------- *)

Undefined == [undefined |-> TRUE]
Null == [null |-> TRUE]
NaN == [nan |-> TRUE]
\* the number k/1000: numbers carry up to three decimals
Milli(k) == [num |-> k]
Whole(n) == Milli(1000 * n)
Str(s) == [str |-> s]
\* an object is the function from its keys to their values
Obj(f) == [obj |-> f]
Arr(a) == [arr |-> a]
IsNum(v) == "num" \in DOMAIN v
IsStr(v) == "str" \in DOMAIN v
IsObj(v) == "obj" \in DOMAIN v
IsArr(v) == "arr" \in DOMAIN v

\* obj[k] = v
Put(o, k, v) == [x \in DOMAIN o \cup {k} |-> IF x = k THEN v ELSE o[x]]

\* the value of a function call that did not return yet
NotReturned == [pending |-> TRUE]

Char(s, k) == SubSeq(s, k, k)
DropFirst(s, n) == SubSeq(s, n + 1, Len(s))
Digits == {"0", "1", "2", "3", "4", "5", "6", "7", "8", "9"}
DigitValue(c) ==
  CASE c = "0" -> 0 [] c = "1" -> 1 [] c = "2" -> 2 [] c = "3" -> 3
    [] c = "4" -> 4 [] c = "5" -> 5 [] c = "6" -> 6 [] c = "7" -> 7
    [] c = "8" -> 8 [] c = "9" -> 9

\* the length of the longest prefix of digits
RECURSIVE LeadingDigits(_)
LeadingDigits(v) ==
  IF Len(v) > 0 /\ Char(v, 1) \in Digits
    THEN 1 + LeadingDigits(DropFirst(v, 1)) ELSE 0

\* the number a string of digits writes
RECURSIVE DigitsValue(_)
DigitsValue(v) ==
  IF Len(v) = 0 THEN 0
  ELSE 10 * DigitsValue(SubSeq(v, 1, Len(v) - 1)) + DigitValue(Char(v, Len(v)))

IsSpace(c) == c \in {" ", "\n", "\t"}

RECURSIVE TrimStart(_)
TrimStart(v) ==
  IF Len(v) > 0 /\ IsSpace(Char(v, 1)) THEN TrimStart(DropFirst(v, 1)) ELSE v

RECURSIVE TrimEnd(_)
TrimEnd(v) ==
  IF Len(v) > 0 /\ IsSpace(Char(v, Len(v)))
    THEN TrimEnd(SubSeq(v, 1, Len(v) - 1)) ELSE v

\* String.prototype.trim
Trim(v) == TrimEnd(TrimStart(v))

(* ---------------------------------------------------------------------- *)
(* The converter of xml-parser.ts (xmlElementToJson, parseValue)          *)
(* ---------------------------------------------------------------------- *)

\* /^-?\d+\.?\d*$/.test(value) (xml-parser.ts:72)
LooksNumeric(v) ==
  LET u == IF Len(v) > 0 /\ Char(v, 1) = "-" THEN DropFirst(v, 1) ELSE v
      n == LeadingDigits(u)
      r == DropFirst(u, n)
      f == IF Len(r) > 0 /\ Char(r, 1) = "." THEN DropFirst(r, 1) ELSE r
  IN  n >= 1 /\ LeadingDigits(f) = Len(f)

\* parseFloat(value) of a value that looks numeric (xml-parser.ts:73), in
\* thousandths
ParseFloat(v) ==
  LET neg == Char(v, 1) = "-"
      u == IF neg THEN DropFirst(v, 1) ELSE v
      n == LeadingDigits(u)
      f == DropFirst(u, n + 1)
      k == 1000 * DigitsValue(SubSeq(u, 1, n))
             + DigitsValue(SubSeq(f \o "000", 1, 3))
  IN  IF neg THEN 0 - k ELSE k

\* parseValue (xml-parser.ts:70-76)
ParseValue(v) == IF LooksNumeric(v) THEN Milli(ParseFloat(v)) ELSE Str(v)

\* an element: its attributes in order, its child elements in document
\* order, and its own text
Element(t, as, cs, x) == [tag |-> t, attrs |-> as, children |-> cs, text |-> x]
Attr(n, v) == [name |-> n, value |-> v]

\* the attribute loop (xml-parser.ts:29-33)
RECURSIVE AddAttributes(_, _)
AddAttributes(o, as) ==
  IF as = <<>> THEN o
  ELSE AddAttributes(Put(o, as[1].name, ParseValue(as[1].value)), Tail(as))

\* one iteration of the child loop with the child already converted
\* (xml-parser.ts:52-60)
AddChild(o, childName, childValue) ==
  IF childName \in DOMAIN o
    THEN IF IsArr(o[childName])
           THEN Put(o, childName, Arr(Append(o[childName].arr, childValue)))
           ELSE Put(o, childName, Arr(<<o[childName], childValue>>))
    ELSE Put(o, childName, childValue)

RECURSIVE XmlElementToJson(_)
RECURSIVE AddChildren(_, _)

\* the child loop (xml-parser.ts:47-61)
AddChildren(o, cs) ==
  IF cs = <<>> THEN o
  ELSE AddChildren(AddChild(o, cs[1].tag, XmlElementToJson(cs[1])), Tail(cs))

\* xmlElementToJson (xml-parser.ts:26-65)
XmlElementToJson(el) ==
  LET obj == AddAttributes(<<>>, el.attrs)
      text == Trim(el.text)
  IN  IF el.children = <<>>
        THEN IF text # "" /\ DOMAIN obj = {} THEN ParseValue(text)
             ELSE IF text # "" THEN Obj(Put(obj, "_text", ParseValue(text)))
             ELSE Obj(obj)
        ELSE Obj(AddChildren(obj, el.children))

(* ---------------------------------------------------------------------- *)
(* Rank extraction of game-mapper.ts                                      *)
(* ---------------------------------------------------------------------- *)

\* one entry of a rank list: its name and value, and what an "@attributes"
\* member holds when there is one
RankEntry(n, v, a) == [name |-> n, value |-> v, attributes |-> a]

\* whether a value counts as true in a condition
Truthy(v) ==
  /\ v # Undefined
  /\ v # Null
  /\ v # NaN
  /\ v # Milli(0)
  /\ v # Str("")

\* r.name === n || r["@attributes"]?.name === n (game-mapper.ts:22-23)
Named(r, n) ==
  \/ r.name = Str(n)
  \/ r.attributes # Undefined /\ r.attributes.name = Str(n)

\* ranks.find(...) (game-mapper.ts:22-23): the first match, or undefined
Find(ranks, n) ==
  IF \E k \in 1..Len(ranks) : Named(ranks[k], n)
    THEN ranks[CHOOSE k \in 1..Len(ranks) :
                 /\ Named(ranks[k], n)
                 /\ \A j \in 1..(k - 1) : ~Named(ranks[j], n)]
    ELSE Undefined

\* r?.value || r?.["@attributes"]?.value (game-mapper.ts:25-26)
ValueOf(r) ==
  IF r = Undefined THEN Undefined
  ELSE IF Truthy(r.value) THEN r.value
  ELSE IF r.attributes = Undefined THEN Undefined
  ELSE r.attributes.value

\* parseInt(String(v), 10) (game-mapper.ts:29, 32): the integer part of a
\* number; of a string the leading integer behind white space and a sign,
\* NaN when there is none
ParseInt(v) ==
  IF IsNum(v)
    THEN IF v.num < 0 THEN Whole(0 - ((0 - v.num) \div 1000))
         ELSE Whole(v.num \div 1000)
  ELSE LET t == TrimStart(v.str)
           signed == Len(t) > 0 /\ Char(t, 1) \in {"-", "+"}
           u == IF signed THEN DropFirst(t, 1) ELSE t
           n == LeadingDigits(u)
       IN  IF n = 0 THEN NaN
           ELSE IF signed /\ Char(t, 1) = "-"
             THEN Whole(0 - DigitsValue(SubSeq(u, 1, n)))
           ELSE Whole(DigitsValue(SubSeq(u, 1, n)))

\* v ? (v === "Not Ranked" ? null : parseInt(String(v), 10)) : null
\* (game-mapper.ts:28-33)
RankOf(v) ==
  IF Truthy(v)
    THEN IF v = Str("Not Ranked") THEN Null ELSE ParseInt(v)
    ELSE Null

\* the ranks of a rating as a list (game-mapper.ts:18-20)
AsList(ranks) == IF IsArr(ranks) THEN ranks.arr ELSE <<ranks>>

\* rank and strategyRank of the Game built from a rating's ranks
\* (game-mapper.ts:14-34, 144-164)
ExtractRanks(ranks) ==
  IF Truthy(ranks)
    THEN [rank |-> RankOf(ValueOf(Find(AsList(ranks), "boardgame"))),
          strategyRank |->
            RankOf(ValueOf(Find(AsList(ranks), "strategygames")))]
    ELSE [rank |-> Null, strategyRank |-> Null]

\* collectionGameToGame as far as the ranks go (game-mapper.ts:12-72);
\* an object without a member is Undefined
CollectionGameToGame(bggGame) ==
  [rating |-> ExtractRanks(
     IF bggGame.stats = Undefined \/ bggGame.stats.rating = Undefined
       THEN Undefined ELSE bggGame.stats.rating.ranks)]

\* gameInfoToGame as far as the ranks go (game-mapper.ts:142-227)
GameInfoToGame(gameInfo) ==
  [rating |-> ExtractRanks(
     IF gameInfo.statistics = Undefined \/ gameInfo.statistics.ratings = Undefined
       THEN Undefined ELSE gameInfo.statistics.ratings.ranks)]

(* ---------------------------------------------------------------------- *)
(* Merging detail records into games (game-mapper.ts:78-136)              *)
(* ---------------------------------------------------------------------- *)

\* gameInfo.links?.filter((link) => link.type === t).map((link) => link.value)
\* (game-mapper.ts:80-92)
LinkValues(links, t) ==
  IF links = Undefined THEN Undefined
  ELSE LET ls == SelectSeq(links.arr, LAMBDA l : l.type = Str(t))
       IN  Arr([k \in 1..Len(ls) |-> ls[k].value])

\* the weight read from statistics.ratings.averageweight
\* (game-mapper.ts:95-97); parseFloat of a text that is no number is NaN
WeightOf(gameInfo) ==
  LET w == IF gameInfo.statistics = Undefined
                \/ gameInfo.statistics.ratings = Undefined
             THEN Undefined
             ELSE gameInfo.statistics.ratings.averageweight
  IN  IF ~Truthy(w) THEN Undefined
      ELSE IF IsNum(w) THEN w
      ELSE IF LooksNumeric(w.str) THEN Milli(ParseFloat(w.str))
      ELSE NaN

\* mergeGameInfo (game-mapper.ts:78-107): a new object with the members of
\* game and the five detail members set
MergeGameInfo(game, gameInfo) ==
  [game EXCEPT !.description = gameInfo.description,
               !.weight = WeightOf(gameInfo),
               !.categories = LinkValues(gameInfo.links, "boardgamecategory"),
               !.mechanics = LinkValues(gameInfo.links, "boardgamemechanic"),
               !.designers = LinkValues(gameInfo.links, "boardgamedesigner")]

\* String(v) of a whole number, a string or undefined
JsString(v) ==
  IF IsNum(v) THEN ToString(v.num \div 1000)
  ELSE IF IsStr(v) THEN v.str
  ELSE "undefined"

\* gameInfoMap.get(id) after the forEach of game-mapper.ts:126-130: the last
\* info set under that key, or undefined
MapGet(gameInfos, id) ==
  LET ks == {k \in 1..Len(gameInfos) : JsString(gameInfos[k].objectid) = id}
  IN  IF ks = {} THEN Undefined
      ELSE gameInfos[CHOOSE k \in ks : \A j \in ks : j <= k]

\* variant of MergeGamesInfo that looks an info up by its objectid as it is,
\* a number
MergeGamesInfoUnnormalised(games, gameInfos) ==
  [k \in 1..Len(games) |->
     LET ks == {j \in 1..Len(gameInfos) : gameInfos[j].objectid = games[k].id}
     IN  IF ks = {} THEN games[k]
         ELSE MergeGameInfo(games[k], gameInfos[CHOOSE j \in ks : TRUE])]

\* mergeGamesInfo (game-mapper.ts:122-136)
MergeGamesInfo(games, gameInfos) ==
  [k \in 1..Len(games) |->
     IF MapGet(gameInfos, games[k].id.str) = Undefined THEN games[k]
     ELSE MergeGameInfo(games[k], MapGet(gameInfos, games[k].id.str))]

(* ---------------------------------------------------------------------- *)
(* Merging play records into games (mergePlays, imported by               *)
(* pages/Collection.tsx:9 from lib/game-mapper; modelled from its         *)
(* description: one pass over the records builds a lookup from game id to *)
(* an aggregate, one pass over the games reads it)                        *)
(* ---------------------------------------------------------------------- *)

\* a play record: the game played, how many times, and the day
Play(gid, q, d) == [gameId |-> gid, quantity |-> q, date |-> d]

\* a play date, days counted from some first day
Day(d) == [day |-> d]

Later(a, b) == IF a >= b THEN a ELSE b

\* the lookup after the first n play records: for each game id met so far
\* the summed quantity and the latest date
RECURSIVE PlayAggregates(_, _)
PlayAggregates(plays, n) ==
  IF n = 0 THEN <<>>
  ELSE LET m == PlayAggregates(plays, n - 1)
           p == plays[n]
       IN  IF p.gameId \in DOMAIN m
             THEN [m EXCEPT ![p.gameId] =
                     [count |-> m[p.gameId].count + p.quantity,
                      last |-> Later(m[p.gameId].last, p.date)]]
             ELSE [g \in DOMAIN m \cup {p.gameId} |->
                     IF g = p.gameId
                       THEN [count |-> p.quantity, last |-> p.date]
                       ELSE m[g]]

\* variant of MergePlays whose lookup keeps the date of the record met last
MergePlaysLastRecord(games, plays) ==
  [k \in 1..Len(games) |->
     LET ms == {j \in 1..Len(plays) : plays[j].gameId = games[k].id.str}
         m == PlayAggregates(plays, Len(plays))
     IN  IF ms = {} THEN [games[k] EXCEPT !.lastPlayed = Undefined]
         ELSE [games[k] EXCEPT
                 !.numPlays = Whole(m[games[k].id.str].count),
                 !.lastPlayed =
                   Day(plays[CHOOSE j \in ms : \A x \in ms : x <= j].date)]]

\* mergePlays: every game with its aggregate, a game without one with the
\* play count it had and no last-played date
MergePlays(games, plays) ==
  LET m == PlayAggregates(plays, Len(plays))
  IN  [k \in 1..Len(games) |->
         IF games[k].id.str \in DOMAIN m
           THEN [games[k] EXCEPT !.numPlays = Whole(m[games[k].id.str].count),
                                 !.lastPlayed = Day(m[games[k].id.str].last)]
           ELSE [games[k] EXCEPT !.lastPlayed = Undefined]]

(* ---------------------------------------------------------------------- *)
(* The weighted pick (xml-parser.ts:321-354)                              *)
(* ---------------------------------------------------------------------- *)

RECURSIVE Power(_, _)
Power(b, e) == IF e = 0 THEN 1 ELSE b * Power(b, e - 1)

\* Math.pow(0.85, index) for a list of n games, in units of 100^-(n-1) so
\* that every weight is a whole number (index counted from 0)
Weight(index, n) == Power(85, index) * Power(100, n - 1 - index)

\* cumulativeWeight after the loop body has run for indexes 0..index
RECURSIVE Cumulative(_, _)
Cumulative(index, n) ==
  IF index < 0 THEN 0 ELSE Cumulative(index - 1, n) + Weight(index, n)

\* totalWeight (xml-parser.ts:338)
TotalWeight(n) == Cumulative(n - 1, n)

\* what the function hands back: a game and the number of Math.random()
\* calls made, or the error thrown
Picked(game, draws) == [game |-> game, draws |-> draws]

PickThrew(message) == [threw |-> message, draws |-> 0]

\* variant of WalkFrom that passes a position whose cumulative weight only
\* equals the draw
RECURSIVE WalkFromStrict(_, _, _)
WalkFromStrict(games, random, index) ==
  IF index >= Len(games) THEN games[1]
  ELSE IF random < Cumulative(index, Len(games)) THEN games[index + 1]
  ELSE WalkFromStrict(games, random, index + 1)

\* the loop of xml-parser.ts:344-349 from position index on, and the
\* fallback of line 352 after it
RECURSIVE WalkFrom(_, _, _)
WalkFrom(games, random, index) ==
  IF index >= Len(games) THEN games[1]
  ELSE IF random <= Cumulative(index, Len(games)) THEN games[index + 1]
  ELSE WalkFrom(games, random, index + 1)

\* variant of PickWeightedRandomGame that draws before it looks at the
\* length of the list
PickAfterDrawing(games, random) ==
  IF Len(games) = 0 THEN [threw |-> "Cannot pick from empty game list",
                          draws |-> 1]
  ELSE Picked(WalkFrom(games, random, 0), 1)

\* pickWeightedRandomGame; random is Math.random() * totalWeight, read only
\* where line 341 is reached
PickWeightedRandomGame(games, random) ==
  IF Len(games) = 0 THEN PickThrew("Cannot pick from empty game list")
  ELSE IF Len(games) = 1 THEN Picked(games[1], 0)
  ELSE Picked(WalkFrom(games, random, 0), 1)

(* ---------------------------------------------------------------------- *)
(* The functions of src/lib called on their own                           *)
(* ---------------------------------------------------------------------- *)

\* child elements given to the converter: leaves with and without text and
\* attributes, and one element with children of its own
ChildElements ==
  {Element("b", <<>>, <<>>, "2"),
   Element("b", <<>>, <<>>, "3"),
   Element("b", <<>>, <<>>, "x"),
   Element("b", <<Attr("id", "5")>>, <<>>, " 3 "),
   Element("b", <<>>, <<>>, ""),
   Element("c", <<>>, <<>>, "-4.5"),
   Element("c", <<Attr("id", "7.")>>, <<>>, ""),
   Element("c", <<>>, <<Element("e", <<>>, <<>>, "1"),
                        Element("e", <<>>, <<>>, "1e3")>>, "")}

\* attribute lists of the parent: none, one that no child is named like, one
\* named like a child, two
ParentAttrs ==
  {<<>>,
   <<Attr("x", "1")>>,
   <<Attr("b", "1")>>,
   <<Attr("x", "n/a"), Attr("c", "0.25")>>}

RECURSIVE SeqsUpTo(_, _)
SeqsUpTo(S, n) ==
  IF n = 0 THEN {<<>>}
  ELSE SeqsUpTo(S, n - 1)
         \cup {Append(q, x) : q \in {r \in SeqsUpTo(S, n - 1) : Len(r) = n - 1},
                              x \in S}

\* the elements given to xmlElementToJson
Elements ==
  {Element("a", as, cs, "") : as \in ParentAttrs,
                              cs \in SeqsUpTo(ChildElements, MaxChildren)}

\* entries of a rank list: ranked, not ranked, another category, named and
\* valued through "@attributes", and values that are no rank
RankEntries ==
  {RankEntry(Str("boardgame"), Whole(12), Undefined),
   RankEntry(Str("boardgame"), Str("Not Ranked"), Undefined),
   RankEntry(Str("strategygames"), Whole(3), Undefined),
   RankEntry(Str("strategygames"), Str("Not Ranked"), Undefined),
   RankEntry(Str("familygames"), Whole(40), Undefined),
   RankEntry(Undefined, Undefined, [name |-> Str("boardgame"), value |-> Whole(7)]),
   RankEntry(Str("strategygames"), Whole(0), Undefined),
   RankEntry(Str("boardgame"), Str("N/A"), Undefined),
   RankEntry(Str("strategygames"), Whole(0 - 1), Undefined)}

\* what a rating holds as its ranks: nothing, one entry, a list of entries
RankLists ==
  {Undefined} \cup RankEntries
    \cup {Arr(q) : q \in SeqsUpTo(RankEntries, MaxRanks)}

CollectionGames == {[stats |-> [rating |-> [ranks |-> r]]] : r \in RankLists}
                     \cup {[stats |-> Undefined]}
GameInfos == {[statistics |-> [ratings |-> [ranks |-> r]]] : r \in RankLists}
               \cup {[statistics |-> Undefined]}

\* a Game (types/game.ts:1-43) as far as the merges read and write it; the
\* detail members are all absent, as collectionGameToGame leaves them, or all
\* set
BaseGame(id, cid, detailed) ==
  [id |-> Str(id), collectionId |-> Str(cid), name |-> Str("Game " \o id),
   rating |-> [rank |-> Whole(12), strategyRank |-> Null],
   status |-> [owned |-> TRUE], numPlays |-> Whole(4), lastPlayed |-> Undefined,
   description |-> IF detailed THEN Str("old text") ELSE Undefined,
   weight |-> IF detailed THEN Milli(2500) ELSE Undefined,
   categories |-> IF detailed THEN Arr(<<Str("Card Game")>>) ELSE Undefined,
   mechanics |-> IF detailed THEN Arr(<<Str("Drafting")>>) ELSE Undefined,
   designers |-> IF detailed THEN Arr(<<Str("A. Designer")>>) ELSE Undefined]

\* collection entries: two copies of item 13 and one of item 42
Games ==
  {BaseGame(e[1], e[2], d) :
     e \in {<<"13", "c1">>, <<"13", "c2">>, <<"42", "c3">>}, d \in BOOLEAN}

Link(t, v) == [type |-> Str(t), value |-> Str(v)]

\* a GameInfo (bgg-api.ts:73-110) as far as the merges read it
DetailInfo(oid, desc, links, stats) ==
  [objectid |-> oid, description |-> desc, links |-> links,
   statistics |-> stats]

\* detail records with and without description, links and weight
DetailInfos ==
  {DetailInfo(oid, desc, links, stats) :
     oid \in {Whole(13), Str("42"), Whole(99)},
     desc \in {Undefined, Str("new text")},
     links \in {Undefined,
                Arr(<<Link("boardgamedesigner", "B. Designer")>>),
                Arr(<<Link("boardgamecategory", "Dice"),
                      Link("boardgamemechanic", "Bluffing"),
                      Link("boardgamecategory", "Party")>>)},
     stats \in {Undefined,
                [ratings |-> Undefined],
                [ratings |-> [averageweight |-> Milli(0)]],
                [ratings |-> [averageweight |-> Milli(3250)]]}}

\* the detail records given to mergeGamesInfo
ListedInfos ==
  {DetailInfo(Whole(13), Str("new text"), Undefined,
              [ratings |-> [averageweight |-> Milli(3250)]]),
   DetailInfo(Whole(13), Undefined,
              Arr(<<Link("boardgamecategory", "Dice")>>), Undefined),
   DetailInfo(Str("42"), Str("other text"), Undefined, Undefined),
   DetailInfo(Whole(99), Str("no such entry"), Undefined, Undefined)}

\* play records of items 13 and 42: quantities 2, 1 and 3 on days 1 < 2 < 3
Plays ==
  {Play(gid, e[1], e[2]) :
     gid \in {"13", "42"}, e \in {<<2, 1>>, <<1, 2>>, <<3, 3>>}}

\* the games given to mergePlays, as mapCollectionToGames leaves them
PlayedGames == {g \in Games : g.description = Undefined}

\* the values of Math.random() * totalWeight tried for a list of n games:
\* 0, each cumulative weight and its two neighbours, and one value past the
\* total, the rounding case the fallback of xml-parser.ts:351-352 is for
Draws(n) ==
  IF n < 2 THEN {0}
  ELSE {0} \cup {r \in UNION {{Cumulative(k, n) - 1, Cumulative(k, n),
                                 Cumulative(k, n) + 1} : k \in 0..(n - 1)} :
                   r <= TotalWeight(n) + 1}

LibCalls == {"xmlElementToJson", "collectionGameToGame", "gameInfoToGame",
             "mergeGameInfo", "mergeGamesInfo", "mergePlays",
             "pickWeightedRandomGame"}

LibArgs(c) ==
  CASE c = "xmlElementToJson" -> Elements
    [] c = "collectionGameToGame" -> CollectionGames
    [] c = "gameInfoToGame" -> GameInfos
    [] c = "mergeGameInfo" ->
         {[game |-> g, gameInfo |-> x] : g \in Games, x \in DetailInfos}
    [] c = "mergeGamesInfo" ->
         {[games |-> gs, gameInfos |-> xs] :
            gs \in SeqsUpTo(Games, MaxGames),
            xs \in SeqsUpTo(ListedInfos, MaxInfos)}
    [] c = "mergePlays" ->
         {[games |-> gs, plays |-> ps] :
            gs \in SeqsUpTo(PlayedGames, MaxPlayedGames),
            ps \in SeqsUpTo(Plays, MaxPlays)}
    [] c = "pickWeightedRandomGame" ->
         UNION {{[games |-> gs, random |-> r] : r \in Draws(Len(gs))} :
                  gs \in SeqsUpTo(PlayedGames, MaxPick)}

\* the function called returns
Return(v) ==
  /\ ret = NotReturned
  /\ ret' = v
  /\ UNCHANGED <<call, arg, clientVars, fetcherVars, pairVars, pageVars>>

XmlElementToJsonCall ==
  /\ call = "xmlElementToJson"
  /\ Return(XmlElementToJson(arg))

CollectionGameToGameCall ==
  /\ call = "collectionGameToGame"
  /\ Return(CollectionGameToGame(arg))

GameInfoToGameCall ==
  /\ call = "gameInfoToGame"
  /\ Return(GameInfoToGame(arg))

MergeGameInfoCall ==
  /\ call = "mergeGameInfo"
  /\ Return(MergeGameInfo(arg.game, arg.gameInfo))

MergeGamesInfoCall ==
  /\ call = "mergeGamesInfo"
  /\ Return(Arr(MergeGamesInfo(arg.games, arg.gameInfos)))

MergePlaysCall ==
  /\ call = "mergePlays"
  /\ Return(Arr(MergePlays(arg.games, arg.plays)))

PickWeightedRandomGameCall ==
  /\ call = "pickWeightedRandomGame"
  /\ Return(PickWeightedRandomGame(arg.games, arg.random))

(* ---------------------------------------------------------------------- *)
(* The collection page (pages/Collection.tsx:100-101, 215-243)            *)
(* ---------------------------------------------------------------------- *)

\* no pickWeightedRandomGame call has been made
NotInvoked == [by |-> "none"]

\* a pickWeightedRandomGame call: the handler, the length of the list shown
\* and the game displayed when the handler ran, the argument and the outcome
Invocation(by, listed, shown, games, outcome) ==
  [by |-> by, listed |-> listed, shown |-> shown, games |-> games,
   outcome |-> outcome]

\* the page before it is mounted: useState(null), useState(false)
PageIdle ==
  /\ filtered = <<>>
  /\ pickedGame = Null
  /\ isModalOpen = FALSE
  /\ invoked = NotInvoked

\* entry k of the collection: entries 1 and 2 are copies of item 13, every
\* entry has its own collectionId
Entry(k) ==
  BaseGame(IF k <= 2 THEN "13" ELSE ToString(40 + k), "c" \o ToString(k), FALSE)

\* what filters and sort order can leave of the collection: some of its
\* entries, each once, in ascending or descending order
FilteredLists ==
  {[k \in 1..Len(ks) |-> Entry(ks[k])] :
     ks \in {q \in SeqsUpTo(1..MaxEntries, MaxEntries) :
               \/ \A a, b \in 1..Len(q) : a < b => q[a] < q[b]
               \/ \A a, b \in 1..Len(q) : a < b => q[a] > q[b]}}

\* variant of AvailableGames that leaves out the entries of the item
\* displayed
AvailableGamesByItem(games, picked) ==
  SelectSeq(games, LAMBDA g : picked = Null \/ g.id # picked.id)

\* filteredAndSortedGames.filter(g => g.collectionId !==
\* pickedGame?.collectionId) (Collection.tsx:238)
AvailableGames(games, picked) ==
  SelectSeq(games, LAMBDA g : picked = Null \/ g.collectionId # picked.collectionId)

\* filters, sort order or the data behind the list change
\* (Collection.tsx:303)
SetFilters ==
  /\ \E l \in FilteredLists : l # filtered /\ filtered' = l
  /\ UNCHANGED <<pickedGame, isModalOpen, invoked>>

\* pickWeightedRandomGame called by a handler of the page: the call is
\* recorded, and its result becomes the game displayed unless it threw
PickFrom(by, games) ==
  \E r \in Draws(Len(games)) :
    LET outcome == PickWeightedRandomGame(games, r)
    IN  /\ invoked' = Invocation(by, Len(filtered), pickedGame, games, outcome)
        /\ pickedGame' = IF "threw" \in DOMAIN outcome THEN pickedGame
                         ELSE outcome.game

\* handlePickRandom (Collection.tsx:215-221)
HandlePickRandom ==
  /\ IF Len(filtered) = 0 THEN UNCHANGED <<pickedGame, isModalOpen, invoked>>
     ELSE /\ PickFrom("handlePickRandom", filtered)
          /\ isModalOpen' = IF "threw" \in DOMAIN invoked'.outcome
                            THEN isModalOpen ELSE TRUE
  /\ UNCHANGED filtered

\* handleCloseModal (Collection.tsx:223-225), offered by the open modal
HandleCloseModal ==
  /\ isModalOpen /\ pickedGame # Null
  /\ isModalOpen' = FALSE
  /\ UNCHANGED <<filtered, pickedGame, invoked>>

\* handlePickAnother (Collection.tsx:227-243), offered by the open modal
HandlePickAnother ==
  /\ isModalOpen /\ pickedGame # Null
  /\ IF Len(filtered) = 0 THEN UNCHANGED <<pickedGame, invoked>>
     ELSE IF Len(filtered) = 1
       THEN pickedGame' = filtered[1] /\ UNCHANGED invoked
     ELSE PickFrom("handlePickAnother", AvailableGames(filtered, pickedGame))
  /\ UNCHANGED <<filtered, isModalOpen>>

(* ---------------------------------------------------------------------- *)
(* Specification                                                          *)
(* ---------------------------------------------------------------------- *)

\* the bodies a response of status s can carry to the caller
BodiesOf(s) == IF StatusKind(s) \in {"ready", "client"} THEN Bodies ELSE {NoBody}

Init ==
  /\ op \in Ops
  /\ pc = "start"
  /\ username \in (IF op \in {"validateUsername", "getUserCollection"}
                     THEN Usernames ELSE {""})
  /\ gameIds \in (IF op = "getGamesInfo" THEN GameIdLists ELSE {<<>>})
  /\ result = Pending
  /\ gamesResult = Pending
  /\ i = 0
  /\ allGames = <<>>
  /\ log = <<>>
  /\ inFlight = 0
  /\ fpc = "idle"
  /\ maxRetries = 0
  /\ initialDelay = 0
  /\ attempt = 0
  /\ delay = 0
  /\ lastError = ""
  /\ response = NoResponse
  /\ thrown = ""
  /\ fetchCalls = 0
  /\ sleeps = <<>>
  /\ kinds = {}
  /\ last = NoOutcome
  /\ answers = <<>>
  /\ cur = 1
  /\ susp = IdleFrame
  /\ call = "none"
  /\ arg = Undefined
  /\ ret = NotReturned
  /\ PageIdle

\* one client operation runs: no second invocation, no separate function call
Single == UNCHANGED <<pairVars, pureVars, pageVars>>

Next ==
  \/ FetchWithRetryStart /\ Single
  \/ ValidateUsernameStart /\ Single
  \/ GetUserCollectionStart /\ Single
  \/ GetGamesInfoStart /\ Single
  \/ GetGameInfoStart /\ Single
  \/ \E s \in Statuses : \E b \in BodiesOf(s) :
       FetchResolves(s, b) /\ UNCHANGED clientVars /\ Single
  \/ \E e \in FetchErrors : FetchRejects(e) /\ UNCHANGED clientVars /\ Single
  \/ BackoffElapsed /\ UNCHANGED clientVars /\ Single
  \/ ValidateUsernameResume /\ Single
  \/ GetUserCollectionResume /\ Single
  \/ GetGamesInfoResume /\ Single
  \/ BatchPauseElapsed /\ Single
  \/ GetGameInfoResume /\ Single

Spec == Init /\ [][Next]_vars

\* statuses of a direct fetchWithRetry call: those above, an informational one
\* and a redirect
FetcherStatuses == Statuses \cup {101, 302}

\* the fetch() call in flight is answered
AnswerArrives ==
  \/ \E s \in FetcherStatuses : \E b \in BodiesOf(s) :
       FetchResolves(s, b) /\ UNCHANGED clientVars /\ Single
  \/ \E e \in FetchErrors : FetchRejects(e) /\ UNCHANGED clientVars /\ Single

\* the timer of sleep() fires
SleepEnds == BackoffElapsed /\ UNCHANGED clientVars /\ Single

\* one direct fetchWithRetry call; every fetch() call is answered and every
\* sleep() ends
FetcherInit ==
  /\ Init
  /\ op = "fetchWithRetry"

FetcherNext ==
  \/ FetchWithRetryStart /\ Single
  \/ AnswerArrives
  \/ SleepEnds

FetcherSpec ==
  /\ FetcherInit
  /\ [][FetcherNext]_vars
  /\ WF_vars(AnswerArrives)
  /\ WF_vars(SleepEnds)

\* two fetchWithRetry calls started by independent callers
PairInit ==
  /\ Init
  /\ op = "fetchWithRetry"

PairNext ==
  \/ PairCall
  \/ \E s \in PairStatuses :
       \E b \in (IF StatusKind(s) \in {"ready", "client"}
                   THEN PairBodies ELSE {NoBody}) : PairFetchResolves(s, b)
  \/ \E e \in PairErrors : PairFetchRejects(e)
  \/ PairBackoffElapsed
  \/ ContextSwitch

PairSpec == PairInit /\ [][PairNext]_vars

\* one function of src/lib is called on an argument; no client operation runs
LibInit ==
  /\ op = "none"
  /\ pc = "start"
  /\ username = ""
  /\ gameIds = <<>>
  /\ result = Pending
  /\ gamesResult = Pending
  /\ i = 0
  /\ allGames = <<>>
  /\ log = <<>>
  /\ inFlight = 0
  /\ fpc = "idle"
  /\ maxRetries = 0
  /\ initialDelay = 0
  /\ attempt = 0
  /\ delay = 0
  /\ lastError = ""
  /\ response = NoResponse
  /\ thrown = ""
  /\ fetchCalls = 0
  /\ sleeps = <<>>
  /\ kinds = {}
  /\ last = NoOutcome
  /\ answers = <<>>
  /\ cur = 1
  /\ susp = IdleFrame
  /\ call \in LibCalls
  /\ arg \in LibArgs(call)
  /\ ret = NotReturned
  /\ PageIdle

LibNext ==
  \/ XmlElementToJsonCall
  \/ CollectionGameToGameCall
  \/ GameInfoToGameCall
  \/ MergeGameInfoCall
  \/ MergeGamesInfoCall
  \/ MergePlaysCall
  \/ PickWeightedRandomGameCall

LibSpec == LibInit /\ [][LibNext]_vars

\* the collection page is used; no client operation and no separate
\* function call runs
Rest == UNCHANGED <<clientVars, fetcherVars, pairVars, pureVars>>

PageInit ==
  /\ op = "none"
  /\ pc = "start"
  /\ username = ""
  /\ gameIds = <<>>
  /\ result = Pending
  /\ gamesResult = Pending
  /\ i = 0
  /\ allGames = <<>>
  /\ log = <<>>
  /\ inFlight = 0
  /\ fpc = "idle"
  /\ maxRetries = 0
  /\ initialDelay = 0
  /\ attempt = 0
  /\ delay = 0
  /\ lastError = ""
  /\ response = NoResponse
  /\ thrown = ""
  /\ fetchCalls = 0
  /\ sleeps = <<>>
  /\ kinds = {}
  /\ last = NoOutcome
  /\ answers = <<>>
  /\ cur = 1
  /\ susp = IdleFrame
  /\ call = "none"
  /\ arg = Undefined
  /\ ret = NotReturned
  /\ filtered \in FilteredLists
  /\ pickedGame = Null
  /\ isModalOpen = FALSE
  /\ invoked = NotInvoked

PageNext ==
  \/ SetFilters /\ Rest
  \/ HandlePickRandom /\ Rest
  \/ HandlePickAnother /\ Rest
  \/ HandleCloseModal /\ Rest

PageSpec == PageInit /\ [][PageNext]_vars

(* ---------------------------------------------------------------------- *)
(* Properties of fetchWithRetry                                           *)
(* ---------------------------------------------------------------------- *)

RECURSIVE SumSeq(_)
SumSeq(s) == IF s = <<>> THEN 0 ELSE s[1] + SumSeq(Tail(s))

\* fetch() calls of the current invocation that were answered
Answered == IF fpc = "fetch" THEN fetchCalls - 1 ELSE fetchCalls

\* the sleeps so far are the geometric series I, 2I, 4I, ...
GeometricSleeps ==
  \A k \in 1..Len(sleeps) : sleeps[k] = initialDelay * 2^(k - 1)

\* so far every answered fetch() call answered 202
OnlyProcessing == kinds \subseteq {"processing"}

\* C1: when the first N fetch calls answer 202 and the next one 200, for
\* N = 0..M-1, fetchWithRetry returns that 200 response after exactly N+1
\* fetch calls and exactly N sleeps I, 2I, ..., 2^(N-1)*I, waiting
\* I*(2^N - 1) in total; fewer than M answers of 202 never make it fail.
C1_BackoffThenReady ==
  OnlyProcessing =>
    /\ fpc = "threw" => Answered = maxRetries
    /\ (fpc = "returned" /\ response.status = 200) =>
         LET N == fetchCalls - 1
         IN  /\ N \in 0..(maxRetries - 1)
             /\ last = Resolved(200)
             /\ Len(sleeps) = N
             /\ GeometricSleeps
             /\ SumSeq(sleeps) = initialDelay * (2^N - 1)

C1_Witness ==
  /\ op = "fetchWithRetry"
  /\ fpc = "returned"
  /\ response.status = 200
  /\ kinds = {"processing"}
  /\ maxRetries = 3
  /\ sleeps = <<2000, 4000>>

\* C2: when every fetch call answers 202, fetchWithRetry performs exactly M
\* fetch calls, never more, and then fails with the "still processing ...
\* after maximum retries" error; it never returns a response.
C2_AlwaysProcessing ==
  (OnlyProcessing /\ Answered >= 1 /\ last = Resolved(202)) =>
    /\ fetchCalls <= maxRetries
    /\ fpc # "returned"
    /\ (Answered = maxRetries) <=> (fpc = "threw")
    /\ fpc = "threw" => thrown = ProcessingTimeout

C2_Witness ==
  /\ OnlyProcessing
  /\ last = Resolved(202)
  /\ fpc = "threw"
  /\ maxRetries = MAX_RETRIES
  /\ fetchCalls = MAX_RETRIES
  /\ thrown = ProcessingTimeout

\* a call with the default configuration
DefaultConfig ==
  /\ fpc # "idle"
  /\ maxRetries = MAX_RETRIES
  /\ initialDelay = INITIAL_RETRY_DELAY

\* C3 as stated: with the default configuration fetchWithRetry gives up after
\* backoff sleeps of I*(2^ceiling - 1) = 62000 ms in total.
C3_Original ==
  (DefaultConfig /\ fpc = "threw") =>
    SumSeq(sleeps) = INITIAL_RETRY_DELAY * (2^MAX_RETRIES - 1)

\* C3 amended: with the default configuration the backoff sleeps of one call
\* never exceed I*(2^(ceiling-1) - 1) = 30000 ms in total, and a call that
\* gives up has slept exactly that long.
C3_WorstCaseWait ==
  DefaultConfig =>
    /\ SumSeq(sleeps) <= INITIAL_RETRY_DELAY * (2^(MAX_RETRIES - 1) - 1)
    /\ fpc = "threw" =>
         /\ SumSeq(sleeps) = INITIAL_RETRY_DELAY * (2^(MAX_RETRIES - 1) - 1)
         /\ SumSeq(sleeps) = 30000

C3_Witness ==
  /\ DefaultConfig
  /\ fpc = "threw"
  /\ Len(sleeps) = MAX_RETRIES - 1
  /\ SumSeq(sleeps) = 30000

\* the step in which a fetch() call is answered with a 4xx status
ClientErrorAnswer ==
  /\ fpc = "fetch"
  /\ inFlight' = inFlight - 1
  /\ last'.status \in 400..499

\* C4: a fetch call answered with a 4xx status makes fetchWithRetry return
\* that response at once: no throw, no sleep, no increment of the attempt
\* counter, and no further fetch call of that invocation.
C4_ClientErrorReturned ==
  [][ /\ ClientErrorAnswer =>
           /\ fpc' = "returned"
           /\ response'.status = last'.status
           /\ thrown' = thrown
           /\ sleeps' = sleeps
           /\ attempt' = attempt
           /\ delay' = delay
           /\ fetchCalls' = fetchCalls
           /\ inFlight' = 0
      /\ (fpc = "returned" /\ fpc' # "returned") =>
           (fpc' = "fetch" /\ attempt' = 0 /\ fetchCalls' = 1 /\ sleeps' = <<>>)
      /\ (fpc = "returned" /\ fpc' = "returned") =>
           UNCHANGED <<fetchCalls, inFlight, response, attempt, sleeps>>
    ]_vars

C4_Witness ==
  /\ fpc = "returned"
  /\ response.status = 404
  /\ last = Resolved(404)
  /\ attempt = 2
  /\ Len(sleeps) = 2
  /\ fetchCalls = 3

\* the error a failed call carries for the outcome o of its last attempt
ErrorOf(o, m) ==
  IF o.error # "" THEN o.error
  ELSE IF StatusKind(o.status) = "processing" THEN ProcessingTimeout
  ELSE IF StatusKind(o.status) = "server" THEN StatusAfterRetries(o.status, m)
  ELSE UnknownStatus(o.status)

\* C5: a 5xx response and a rejected fetch are handled like a 202: each
\* consumes one attempt of the same counter and is followed by a sleep of
\* the current interval, which is then doubled, so the k-th wait is
\* I*2^(k-1) whatever mix caused the retries; at the ceiling the call fails
\* carrying the error of the last attempt.
C5_UniformRetry ==
  (fpc # "idle" /\ kinds \subseteq {"processing", "server", "network"}) =>
    /\ GeometricSleeps
    /\ fetchCalls <= maxRetries
    /\ fpc \in {"fetch", "returned"} =>
         /\ attempt = fetchCalls - 1
         /\ Len(sleeps) = attempt
         /\ delay = initialDelay * 2^attempt
    /\ fpc = "sleep" =>
         /\ attempt = fetchCalls
         /\ attempt < maxRetries
         /\ Len(sleeps) = attempt
         /\ sleeps[attempt] = delay
    /\ fpc = "threw" =>
         /\ fetchCalls = maxRetries
         /\ Len(sleeps) = maxRetries - 1
         /\ thrown = ErrorOf(last, maxRetries)
         /\ lastError = thrown

C5_Witness ==
  /\ fpc = "threw"
  /\ kinds = {"processing", "server", "network"}
  /\ maxRetries = 4
  /\ initialDelay = 3
  /\ sleeps = <<3, 6, 12>>
  /\ last = Resolved(503)
  /\ thrown = "BGG API returned status 503 after 4 retries"

(* ---------------------------------------------------------------------- *)
(* Properties of the client operations                                    *)
(* ---------------------------------------------------------------------- *)

GamesOp == op \in {"getGamesInfo", "getGameInfo"}

\* the id lists of the batch requests sent so far, in order
BatchesSent == [k \in 1..Len(SelectSeq(log, LAMBDA e : e.ev = "send")) |->
                  SelectSeq(log, LAMBDA e : e.ev = "send")[k].ids]

RECURSIVE Concat(_)
Concat(ss) == IF ss = <<>> THEN <<>> ELSE ss[1] \o Concat(Tail(ss))

\* ceil(n / BATCH_SIZE)
BatchCount(n) == (n + BATCH_SIZE - 1) \div BATCH_SIZE

\* ids 20k .. min(20k+19, n-1) of the input (0-based), for batch k = 0, 1, ...
ExpectedBatch(ids, k) ==
  [j \in 1..(Min(BATCH_SIZE * k + BATCH_SIZE - 1, Len(ids) - 1) - BATCH_SIZE * k + 1)
     |-> ids[BATCH_SIZE * k + j]]

\* C6 as stated: getGamesInfo on n >= 1 ids issues exactly ceil(n/20) batch
\* requests, whose concatenation is the input list.
C6_Original ==
  (op = "getGamesInfo" /\ pc = "done" /\ Len(gameIds) >= 1) =>
    /\ Len(BatchesSent) = BatchCount(Len(gameIds))
    /\ Concat(BatchesSent) = gameIds

\* C6 amended: getGamesInfo on n >= 1 ids issues at most ceil(n/20) batch
\* requests, and exactly that many unless a batch ends the call in a failure
\* result; batch k carries ids 20k .. min(20k+19, n-1) of the input in input
\* order, so every batch but the last of the ceil(n/20) has exactly 20 ids, and
\* the batches of a call that returns success concatenate to the input list;
\* 45 ids give batches of 20, 20 and 5 ids.
C6_Batches ==
  (op = "getGamesInfo" /\ pc # "start" /\ Len(gameIds) >= 1) =>
    /\ Len(BatchesSent) \in 1..BatchCount(Len(gameIds))
    /\ \A k \in 1..Len(BatchesSent) :
         /\ BatchesSent[k] = ExpectedBatch(gameIds, k - 1)
         /\ k < BatchCount(Len(gameIds)) => Len(BatchesSent[k]) = BATCH_SIZE
    /\ (pc = "done" /\ result.tag = "success") =>
         /\ Len(BatchesSent) = BatchCount(Len(gameIds))
         /\ Concat(BatchesSent) = gameIds
    /\ (pc = "done" /\ Len(BatchesSent) < BatchCount(Len(gameIds))) =>
         result.tag = "failure"
    /\ (Len(gameIds) = 45 /\ pc = "done" /\ result.tag = "success") =>
         [k \in 1..3 |-> Len(BatchesSent[k])] = <<20, 20, 5>>

C6_Witness ==
  /\ op = "getGamesInfo"
  /\ pc = "done"
  /\ result.tag = "success"
  /\ Len(gameIds) = 45
  /\ gameIds[1] > gameIds[2]
  /\ Len(BatchesSent) = 3
  /\ [k \in 1..3 |-> Len(BatchesSent[k])] = <<20, 20, 5>>
  /\ result.data = gameIds

\* number of events of kind e in the first n entries of the log
CountEv(e, n) == Cardinality({k \in 1..n : log[k].ev = e})

\* C7: within one getGamesInfo call at most one batch request is in flight:
\* the request of batch k+1 is sent only after batch k has completed, with all
\* of its fetcher retries, backoff sleeps and the parsing of its response.
C7_SequentialBatches ==
  GamesOp =>
    /\ inFlight <= 1
    /\ \A k \in 1..Len(log) :
         log[k].ev = "send" => CountEv("done", k) = CountEv("send", k) - 1
    /\ \A k \in 1..Len(log) :
         log[k].ev = "done" => CountEv("done", k) = CountEv("send", k)
    /\ (pc = "awaitFetch" /\ fpc \in {"fetch", "sleep"}) =>
         /\ log[Len(log)].ev = "send"
         /\ inFlight = (IF fpc = "fetch" THEN 1 ELSE 0)

C7_Witness ==
  /\ op = "getGamesInfo"
  /\ CountEv("send", Len(log)) = 3
  /\ CountEv("done", Len(log)) = 2
  /\ fpc = "fetch"
  /\ inFlight = 1
  /\ Len(sleeps) = 2

\* C8: a pause of 500 ms separates every two consecutive batch requests of
\* one getGamesInfo call, whatever the earlier batch returned, and no pause
\* follows the last batch.
C8_PauseBetweenBatches ==
  GamesOp =>
    /\ \A k \in 2..Len(log) :
         log[k].ev = "send" => log[k - 1] = Pause(BATCH_PAUSE)
    /\ (pc \in {"done", "gamesReturned"} /\ log # <<>>) =>
         log[Len(log)].ev # "pause"

ClientOps == {"validateUsername", "getUserCollection", "getGamesInfo",
              "getGameInfo"}

\* C9: validateUsername, getUserCollection, getGamesInfo and getGameInfo
\* never throw for a not-found, still-processing, 5xx or network-unreachable
\* outcome: whatever the fetch outcomes, each resolves to a tagged result,
\* success with data or failure with an error message.
C9_TaggedResult ==
  op \in ClientOps =>
    /\ result.tag \in (IF pc = "done" THEN {"success", "failure"} ELSE {"pending"})
    /\ gamesResult.tag \in {"pending", "success", "failure"}
    /\ result.tag = "failure" => result.error # ""
    /\ (fpc = "threw" /\ pc = "done") =>
         (result.tag = "failure" /\ result.error = thrown)

C9_Witness ==
  /\ op = "getGameInfo"
  /\ pc = "done"
  /\ fpc = "threw"
  /\ kinds = {"processing", "server", "network"}
  /\ last = RejectedWith("Load failed")
  /\ result = Failure("Load failed", "true", 0)

\* a 200 response with a body that is not well-formed XML reached the operation
MalformedReady ==
  /\ op \in {"validateUsername", "getUserCollection", "getGamesInfo"}
  /\ pc = "done"
  /\ fpc = "returned"
  /\ response = [status |-> 200, body |-> "malformed"]

InvalidInput ==
  \/ op \in {"validateUsername", "getUserCollection"} /\ username \in {"", "  "}
  \/ op = "getGamesInfo" /\ gameIds = <<>>

\* C11: input validation precedes every network call: validateUsername and
\* getUserCollection with an empty or whitespace-only username, and
\* getGamesInfo with an empty id list, return a failure result having issued
\* zero fetch calls.
C11_ValidationFirst ==
  InvalidInput =>
    /\ fetchCalls = 0
    /\ inFlight = 0
    /\ fpc = "idle"
    /\ pc \in {"start", "done"}
    /\ pc = "done" => result.tag = "failure"

C11_Witness ==
  /\ op = "getUserCollection"
  /\ username = "  "
  /\ pc = "done"
  /\ result = Failure("Username cannot be empty", "absent", 0)
  /\ fetchCalls = 0

\* validateUsername ended on a response with a 4xx status
FinalClientError ==
  /\ op = "validateUsername"
  /\ pc = "done"
  /\ fpc = "returned"
  /\ response.status \in 400..499

\* C12: validateUsername maps a final 404 response to a failure whose
\* message says the user was not found, and any other final 4xx response to a
\* failure with a generic "BGG API error" message; in both cases the body is
\* not parsed (the result is the same whatever the body holds) and the
\* result is not flagged retryable.
C12_ClientErrorMapped ==
  FinalClientError =>
    /\ result.tag = "failure"
    /\ result.retryLater # "true"
    /\ result.backoff = 0
    /\ result.data = <<>>
    /\ response.status = 404 =>
         result.error = "User \"" \o username \o "\" not found on BoardGameGeek"
    /\ response.status # 404 =>
         /\ SubSeq(result.error, 1, 14) = "BGG API error:"
         /\ Includes(result.error, "(" \o ToString(response.status) \o ")")

C12_Witness ==
  /\ FinalClientError
  /\ response = [status |-> 400, body |-> "data"]
  /\ result.error = "BGG API error: Bad Request (400)"
  /\ result.retryLater = "absent"

\* validateUsername ended on an error thrown by fetchWithRetry
ValidateThrew == op = "validateUsername" /\ pc = "done" /\ fpc = "threw"

\* C13: when fetchWithRetry fails inside validateUsername with a
\* network-level error (a message containing "fetch", "Network" or "CORS"),
\* the result is a failure with retryLater = false; when it fails because 202
\* or 5xx responses exhausted the ceiling, the result is a failure with
\* retryLater = true.
C13_NetworkNotRetryable ==
  ValidateThrew =>
    /\ result.tag = "failure"
    /\ last.error \in {"Failed to fetch",
                       "NetworkError when attempting to fetch resource."} =>
         (result.retryLater = "false" /\ result.error = last.error)
    /\ (last.status = 202 \/ last.status >= 500) => result.retryLater = "true"

C13_Witness ==
  /\ ValidateThrew
  /\ last = RejectedWith("NetworkError when attempting to fetch resource.")
  /\ kinds = {"processing", "server", "network"}
  /\ result.retryLater = "false"

\* C14: when upstream keeps answering 202 until the fetcher's ceiling is
\* reached, the client operation (validateUsername, getUserCollection,
\* getGamesInfo) returns a failure that is flagged retryable and carries a
\* suggested backoff in seconds.
C14_RetryableWithBackoff ==
  (/\ op \in {"validateUsername", "getUserCollection", "getGamesInfo"}
   /\ pc = "done"
   /\ fpc = "threw"
   /\ kinds = {"processing"}
   /\ fetchCalls = MAX_RETRIES) =>
    /\ result.tag = "failure"
    /\ result.retryLater = "true"
    /\ result.backoff > 0

\* getUserCollection ended on a response whose body says "still processing"
CollectionProcessing ==
  /\ op = "getUserCollection"
  /\ pc = "done"
  /\ fpc = "returned"
  /\ response.body = "processing"

\* C15: in getUserCollection, when the fetcher resolved with a response whose
\* body the processing check recognises as "still processing", the operation
\* returns the failure {retryLater: true, backoff: 2} without throwing and
\* without parsing the body as a collection.
C15_ProcessingBody ==
  CollectionProcessing =>
    /\ result.tag = "failure"
    /\ result.error = "BGG API is still processing"
    /\ result.retryLater = "true"
    /\ result.backoff = 2
    /\ result.data = <<>>

C15_Witness ==
  /\ CollectionProcessing
  /\ response.status = 200
  /\ Len(sleeps) = 1
  /\ result.backoff = 2

\* C17: getGameInfo(id) calls getGamesInfo with the singleton list <<id>>; it
\* returns success with the first element when the batch result is
\* non-empty, the failure "Game with ID ... not found" when the batch
\* succeeded with an empty list, and passes a batch failure through unchanged
\* (same error, retryLater and backoff).
C17_SingleGame ==
  (op = "getGameInfo" /\ pc # "start") =>
    /\ \E g \in SingleIds : gameIds = <<g>>
    /\ BatchesSent = <<gameIds>>
    /\ pc = "done" =>
         /\ (gamesResult.tag = "success" /\ gamesResult.data # <<>>) =>
              (result.tag = "success" /\ result.data = <<gamesResult.data[1]>>)
         /\ (gamesResult.tag = "success" /\ gamesResult.data = <<>>) =>
              /\ result.tag = "failure"
              /\ result.error = "Game with ID 7 not found"
              /\ result.retryLater = "absent"
         /\ gamesResult.tag = "failure" => result = gamesResult
         /\ gamesResult.tag \in {"success", "failure"}

C17_Witness ==
  /\ op = "getGameInfo"
  /\ pc = "done"
  /\ gameIds = <<7>>
  /\ gamesResult = Failure("BGG API is still processing", "true", 2)
  /\ result = gamesResult

(* ---------------------------------------------------------------------- *)
(* Properties of concurrent invocations                                   *)
(* ---------------------------------------------------------------------- *)

\* fetchWithRetry(url, m, d) run on its own, before any answer
AloneStart(m, d) ==
  [fpc |-> IF 0 < m THEN "fetch" ELSE "threw", attempt |-> 0, sleeps |-> <<>>,
   response |-> NoResponse, thrown |-> IF 0 < m THEN "" ELSE RetriesExceeded]

\* one more answer o to a call run on its own that stands at r: a 200 or 4xx
\* is returned; anything else costs an attempt, ends the call at the ceiling
\* and is otherwise followed by the next sleep of the doubling series
AloneAnswer(r, m, d, o) ==
  IF r.fpc # "fetch" THEN r
  ELSE IF o.error = "" /\ (o.status = 200 \/ o.status \in 400..499)
    THEN [r EXCEPT !.fpc = "returned",
                   !.response = [status |-> o.status, body |-> o.body]]
  ELSE IF r.attempt + 1 >= m
    THEN [r EXCEPT !.fpc = "threw",
                   !.attempt = IF o.error = "" /\ (o.status = 202 \/ o.status >= 500)
                                 THEN r.attempt + 2 ELSE r.attempt + 1,
                   !.thrown = ErrorOf(o, m)]
  ELSE [r EXCEPT !.attempt = r.attempt + 1,
                 !.sleeps = Append(r.sleeps, d * 2^r.attempt)]

\* fetchWithRetry(url, m, d) run on its own against the answers ans
RECURSIVE RunAlone(_, _, _)
RunAlone(m, d, ans) ==
  IF ans = <<>> THEN AloneStart(m, d)
  ELSE AloneAnswer(RunAlone(m, d, SubSeq(ans, 1, Len(ans) - 1)), m, d,
                   ans[Len(ans)])

\* the invocation with frame f stands where the same call run on its own
\* against the same answers stands: attempt count, backoff intervals, outcome
AsAlone(f) ==
  LET r == RunAlone(f.maxRetries, f.initialDelay, f.answers)
  IN  f.fpc # "idle" =>
        /\ f.attempt = r.attempt
        /\ f.sleeps = r.sleeps
        /\ (f.fpc = "returned") = (r.fpc = "returned")
        /\ (f.fpc = "threw") = (r.fpc = "threw")
        /\ f.response = r.response
        /\ f.thrown = r.thrown
        /\ f.fetchCalls = Len(f.answers) + (IF f.fpc = "fetch" THEN 1 ELSE 0)

\* C16: two fetchWithRetry invocations running concurrently share no state:
\* under every interleaving of their fetch completions and sleeps, each
\* invocation's attempt count, backoff interval sequence and final outcome
\* equal those it has when run alone against the same answers.
C16_Independent == AsAlone(Frame) /\ AsAlone(susp)

C16_Witness ==
  /\ cur = 2
  /\ fpc = "threw"
  /\ maxRetries = 3
  /\ sleeps = <<3, 6>>
  /\ thrown = ProcessingTimeout
  /\ inFlight = 1
  /\ susp.fpc = "fetch"
  /\ susp.maxRetries = 2
  /\ susp.sleeps = <<1>>
  /\ susp.answers = <<Answer(503, "", NoBody)>>

(* ---------------------------------------------------------------------- *)
(* Properties of the converter and of rank extraction                     *)
(* ---------------------------------------------------------------------- *)

ConverterReturned == call = "xmlElementToJson" /\ ret # NotReturned

\* the tags of the child elements of el, the names of its attributes
ChildTags(el) == {el.children[k].tag : k \in 1..Len(el.children)}
AttrNames(el) == {el.attrs[k].name : k \in 1..Len(el.attrs)}

\* the converted values of the children of el with tag t, in document order
ValuesOf(el, t) ==
  LET cs == SelectSeq(el.children, LAMBDA c : c.tag = t)
  IN  [k \in 1..Len(cs) |-> XmlElementToJson(cs[k])]

\* what the claims say the result holds under child tag t
Expected(el, t) ==
  IF Len(ValuesOf(el, t)) >= 2 THEN Arr(ValuesOf(el, t)) ELSE ValuesOf(el, t)[1]

\* C18: the converter maps k >= 2 child elements with the same tag under one
\* parent to a single sequence of length k holding their converted values in
\* document order (also when other tags are interleaved), and maps a tag that
\* occurs once to its bare value; attribute values and text are coerced to
\* numbers when they look numeric, so <a x="1"><b>2</b><b>3</b></a> gives
\* x = 1 and b = <<2, 3>>.
C18_RepeatedTags ==
  (ConverterReturned /\ arg.children # <<>>) =>
    /\ IsObj(ret)
    /\ \A t \in ChildTags(arg) : ret.obj[t] = Expected(arg, t)
    /\ \A k \in 1..Len(arg.attrs) :
         arg.attrs[k].name \notin ChildTags(arg) =>
           ret.obj[arg.attrs[k].name] = ParseValue(arg.attrs[k].value)
    /\ arg = Element("a", <<Attr("x", "1")>>,
                     <<Element("b", <<>>, <<>>, "2"),
                       Element("b", <<>>, <<>>, "3")>>, "") =>
         /\ DOMAIN ret.obj = {"x", "b"}
         /\ ret.obj["x"] = Whole(1)
         /\ ret.obj["b"] = Arr(<<Whole(2), Whole(3)>>)

\* what C18 says, for the elements none of whose attributes is named like a
\* child
RepeatedTagsWithoutCollision ==
  (ConverterReturned /\ AttrNames(arg) \cap ChildTags(arg) = {}) =>
    C18_RepeatedTags

RepeatedTagsWitness ==
  /\ ConverterReturned
  /\ arg.attrs = <<Attr("x", "1")>>
  /\ Len(arg.children) = 3
  /\ ret.obj["b"] = Arr(<<Whole(2), Whole(3)>>)
  /\ ret.obj["c"] = Milli(0 - 4500)

\* C19: when an element has an attribute and a child element with the same
\* name, the converter's result holds under that name the converted child
\* value alone: the child-element assignment overwrites the attribute value.
C19_ChildWins ==
  ConverterReturned =>
    \A t \in AttrNames(arg) \cap ChildTags(arg) :
      ret.obj[t] = Expected(arg, t)

MapperReturned ==
  /\ call \in {"collectionGameToGame", "gameInfoToGame"}
  /\ ret # NotReturned

\* the rank list of the argument
RanksGiven ==
  IF call = "collectionGameToGame"
    THEN (IF arg.stats = Undefined THEN Undefined ELSE arg.stats.rating.ranks)
    ELSE (IF arg.statistics = Undefined THEN Undefined
          ELSE arg.statistics.ratings.ranks)

PositiveOrAbsent(v) == v = Null \/ (IsNum(v) /\ v.num > 0 /\ v.num % 1000 = 0)

\* the value of the first entry named n of the rank list given
FirstValue(n) ==
  IF RanksGiven = Undefined THEN Undefined
  ELSE ValueOf(Find(AsList(RanksGiven), n))

\* the list given without the entries named n
Without(n) ==
  Arr(SelectSeq(AsList(RanksGiven), LAMBDA r : ~Named(r, n)))

\* C20: for every rank list given to collectionGameToGame or gameInfoToGame,
\* each of rating.rank and rating.strategyRank of the produced Game is either
\* a positive integer or absent (null); the value "Not Ranked" always yields
\* absent, never 0 or NaN; the overall rank (entry named "boardgame") and the
\* category rank (entry named "strategygames") resolve independently of each
\* other.
C20_RanksResolved ==
  MapperReturned =>
    /\ PositiveOrAbsent(ret.rating.rank)
    /\ PositiveOrAbsent(ret.rating.strategyRank)
    /\ FirstValue("boardgame") = Str("Not Ranked") => ret.rating.rank = Null
    /\ FirstValue("strategygames") = Str("Not Ranked") =>
         ret.rating.strategyRank = Null
    /\ RanksGiven # Undefined =>
         /\ ret.rating.rank = ExtractRanks(Without("strategygames")).rank
         /\ ret.rating.strategyRank =
              ExtractRanks(Without("boardgame")).strategyRank

(* ---------------------------------------------------------------------- *)
(* Further properties of the fetcher and of the client operations         *)
(* ---------------------------------------------------------------------- *)

\* C25: the user extractor returns "not found" (null) whenever the payload
\* lacks a non-empty id or name or carries an error marker, so
\* validateUsername returns success only with a user record whose id and
\* name are both present.
C25_UserRecordComplete ==
  (op = "validateUsername" /\ pc = "done" /\ result.tag = "success") =>
    /\ Len(result.data) = 1
    /\ result.data[1].id # ""
    /\ result.data[1].name # ""

\* C26: for every sequence of fetch outcomes (200, 202, 4xx, 5xx, a thrown
\* network error, or any other status, which is treated as a retryable
\* failure), fetchWithRetry with ceiling M >= 1 issues at most M fetch calls
\* and at most M-1 sleeps, and, provided each fetch and sleep completes, it
\* eventually either returns a response or throws; it never loops forever.
C26_Terminates ==
  /\ [](fpc # "idle" =>
          /\ maxRetries >= 1
          /\ fetchCalls <= maxRetries
          /\ Len(sleeps) <= maxRetries - 1)
  /\ (fpc \in {"fetch", "sleep"}) ~> (fpc \in {"returned", "threw"})

C26_Witness ==
  /\ fpc = "threw"
  /\ maxRetries = MAX_RETRIES
  /\ fetchCalls = MAX_RETRIES
  /\ Len(sleeps) = MAX_RETRIES - 1
  /\ kinds = {"processing", "server", "network", "unknown"}
  /\ last = Resolved(302)
  /\ thrown = "BGG API returned status 302"

\* C27: getUserCollection returns a success result only when the final
\* response of the fetcher had status 200: a final 4xx response (for example
\* 404 for an unknown user) yields a failure result, never success with an
\* empty collection.
C27_SuccessOnlyOnReady ==
  (op = "getUserCollection" /\ pc = "done") =>
    /\ result.tag = "success" => (fpc = "returned" /\ response.status = 200)
    /\ (fpc = "returned" /\ response.status \in 400..499) =>
         result.tag = "failure"

\* the batches sent so far whose index is in K, concatenated in batch order
RECURSIVE ConcatSel(_, _)
ConcatSel(K, n) ==
  IF n = 0 THEN <<>>
  ELSE ConcatSel(K, n - 1) \o (IF n \in K THEN BatchesSent[n] ELSE <<>>)

\* the latest batch ended in a fetcher failure, a "still processing" body or
\* malformed XML
BatchFailed ==
  \/ fpc = "threw"
  \/ fpc = "returned" /\ response.body \in {"processing", "malformed"}

\* C28: getGamesInfo is all-or-nothing over its batches: as soon as one batch
\* ends in a fetcher failure, a "still processing" body or malformed XML, the
\* call returns a failure that carries none of the records of the earlier
\* batches and no request for a later batch is issued; on success the data
\* is the concatenation of the batches' records in batch order.
C28_AllOrNothing ==
  (op = "getGamesInfo" /\ Len(gameIds) >= 1 /\ pc # "start") =>
    /\ \E K \in SUBSET (1..Len(BatchesSent)) :
         allGames = ConcatSel(K, Len(BatchesSent))
    /\ (BatchFailed /\ log[Len(log)].ev = "done") =>
         /\ pc = "done"
         /\ result.tag = "failure"
         /\ result.data = <<>>
         /\ CountEv("send", Len(log)) = CountEv("done", Len(log))
    /\ (pc = "done" /\ result.tag = "failure") => BatchFailed
    /\ (pc = "done" /\ result.tag = "success") =>
         /\ result.data = allGames
         /\ Len(BatchesSent) = BatchCount(Len(gameIds))

C28_Witness ==
  /\ op = "getGamesInfo"
  /\ pc = "done"
  /\ Len(gameIds) = 45
  /\ Len(BatchesSent) = 2
  /\ Len(allGames) = 20
  /\ fpc = "threw"
  /\ result = Failure(ProcessingTimeout, "true", 0)

(* ---------------------------------------------------------------------- *)
(* Properties of the merges                                               *)
(* ---------------------------------------------------------------------- *)

MergeReturned == call = "mergeGameInfo" /\ ret # NotReturned

\* the detail payload holds a link of type t
HasLink(x, t) ==
  x.links # Undefined /\ \E k \in 1..Len(x.links.arr) : x.links.arr[k].type = Str(t)

\* the detail payload holds a weight
HasWeight(x) ==
  /\ x.statistics # Undefined
  /\ x.statistics.ratings # Undefined
  /\ x.statistics.ratings.averageweight # Undefined

\* the members of a game that no merge of detail records may change
SameEntry(a, b) ==
  /\ a.id = b.id
  /\ a.collectionId = b.collectionId
  /\ a.name = b.name
  /\ a.rating = b.rating
  /\ a.status = b.status
  /\ a.numPlays = b.numPlays
  /\ a.lastPlayed = b.lastPlayed

\* C21: mergeGameInfo(game, info) leaves unchanged every one of description,
\* weight, categories, mechanics and designers of the base game whose data is
\* not present in the detail payload, and it never changes any other field of
\* the game (id, collectionId, name, rating, status, numPlays, lastPlayed);
\* the input game object is not mutated.
C21_MergeKeepsAbsent ==
  MergeReturned =>
    /\ SameEntry(ret, arg.game)
    /\ arg.gameInfo.description = Undefined =>
         ret.description = arg.game.description
    /\ ~HasWeight(arg.gameInfo) => ret.weight = arg.game.weight
    /\ ~HasLink(arg.gameInfo, "boardgamecategory") =>
         ret.categories = arg.game.categories
    /\ ~HasLink(arg.gameInfo, "boardgamemechanic") =>
         ret.mechanics = arg.game.mechanics
    /\ ~HasLink(arg.gameInfo, "boardgamedesigner") =>
         ret.designers = arg.game.designers

\* what C21 says of the fields other than the five detail fields
MergeKeepsEntryFields == MergeReturned => SameEntry(ret, arg.game)

ListMergeReturned == call = "mergeGamesInfo" /\ ret # NotReturned

\* the detail records whose objectid, as a string, is the item id of game g
InfosOf(g) ==
  {k \in 1..Len(arg.gameInfos) :
     \/ arg.gameInfos[k].objectid = g.id
     \/ /\ IsNum(arg.gameInfos[k].objectid)
        /\ ToString(arg.gameInfos[k].objectid.num \div 1000) = g.id.str}

\* game r carries the detail fields of detail record x
CarriesDetail(r, x) ==
  /\ r.description = x.description
  /\ r.weight = WeightOf(x)
  /\ r.categories = LinkValues(x.links, "boardgamecategory")
  /\ r.mechanics = LinkValues(x.links, "boardgamemechanic")
  /\ r.designers = LinkValues(x.links, "boardgamedesigner")

\* C29: mergeGamesInfo(games, infos) returns a list of the same length and
\* order as games, in which every entry keeps its id and collectionId; every
\* entry whose item id equals the objectid of some info (compared as strings)
\* receives that info's detail fields, including each of several entries that
\* share one item id, and every entry with no matching info is returned
\* unchanged.
C29_ListMerge ==
  ListMergeReturned =>
    /\ Len(ret.arr) = Len(arg.games)
    /\ \A k \in 1..Len(arg.games) :
         /\ SameEntry(ret.arr[k], arg.games[k])
         /\ InfosOf(arg.games[k]) = {} => ret.arr[k] = arg.games[k]
         /\ InfosOf(arg.games[k]) # {} =>
              \E j \in InfosOf(arg.games[k]) :
                CarriesDetail(ret.arr[k], arg.gameInfos[j])

C29_Witness ==
  /\ ListMergeReturned
  /\ Len(arg.games) = 3
  /\ arg.games[1].id = Str("13")
  /\ arg.games[2].id = Str("42")
  /\ arg.games[3].id = Str("13")
  /\ arg.games[1].collectionId # arg.games[3].collectionId
  /\ arg.games[2].description = Str("old text")
  /\ Len(arg.gameInfos) = 1
  /\ arg.gameInfos[1].objectid = Whole(13)
  /\ ret.arr[1].description = Str("new text")
  /\ ret.arr[3].weight = Milli(3250)
  /\ ret.arr[2] = arg.games[2]

PlaysMerged == call = "mergePlays" /\ ret # NotReturned

\* the play records of game g
PlaysOf(g) == {j \in 1..Len(arg.plays) : arg.plays[j].gameId = g.id.str}

\* the quantities of the play records J added up
RECURSIVE TotalQuantity(_)
TotalQuantity(J) ==
  IF J = {} THEN 0
  ELSE LET j == CHOOSE x \in J : TRUE
       IN  arg.plays[j].quantity + TotalQuantity(J \ {j})

PickReturned == call = "pickWeightedRandomGame" /\ ret # NotReturned

\* C23: pickWeightedRandomGame fails with an error on an empty list, and on
\* a one-element list returns that element without consuming any random
\* draw.
C23_EmptyAndSingle ==
  PickReturned =>
    /\ Len(arg.games) = 0 =>
         /\ "threw" \in DOMAIN ret
         /\ ret.threw = "Cannot pick from empty game list"
    /\ Len(arg.games) = 1 =>
         /\ "game" \in DOMAIN ret
         /\ ret.game = arg.games[1]
         /\ ret.draws = 0

C23_Witness ==
  /\ PickReturned
  /\ Len(arg.games) = 1
  /\ ret = Picked(arg.games[1], 0)

\* the positions (counted from 0) whose cumulative weight reaches the draw
Qualifying ==
  {k \in 0..(Len(arg.games) - 1) : Cumulative(k, Len(arg.games)) >= arg.random}

\* C24: for a list of n >= 2 games and a draw r in [0, totalWeight), with
\* weight 0.85^i at position i, pickWeightedRandomGame returns the element at
\* the least index i whose cumulative weight w(0)+...+w(i) is >= r; the
\* result is always an element of the input list, and when no position
\* qualifies it returns the first element instead of failing.
C24_LeastQualifying ==
  (PickReturned /\ Len(arg.games) >= 2) =>
    /\ "game" \in DOMAIN ret
    /\ \E k \in 1..Len(arg.games) : ret.game = arg.games[k]
    /\ (0 <= arg.random /\ arg.random < TotalWeight(Len(arg.games))) =>
         /\ Qualifying # {}
         /\ ret.game =
              arg.games[1 + CHOOSE k \in Qualifying : \A j \in Qualifying : k <= j]
    /\ Qualifying = {} => ret.game = arg.games[1]

\* the draw equals the cumulative weight of the second of three different
\* entries
C24_Witness ==
  /\ PickReturned
  /\ Len(arg.games) = 3
  /\ arg.games[1] # arg.games[2]
  /\ arg.games[2] # arg.games[3]
  /\ arg.random = Cumulative(1, 3)
  /\ ret.game = arg.games[2]

\* the draw lies past the total and the first entry comes back
FallbackTaken ==
  /\ PickReturned
  /\ Len(arg.games) >= 2
  /\ Qualifying = {}
  /\ ret.game = arg.games[1]

(* ---------------------------------------------------------------------- *)
(* Properties of the collection page                                      *)
(* ---------------------------------------------------------------------- *)

\* C30: after any sequence of filter changes, 'Pick Random' and 'Choose
\* Another' actions on the collection page, pickWeightedRandomGame is never
\* invoked with an empty list, and when the filtered list has at least two
\* entries 'Choose Another' never selects the entry (by collectionId) that is
\* currently picked.
C30_PickIsSafe ==
  invoked # NotInvoked =>
    /\ invoked.games # <<>>
    /\ (invoked.by = "handlePickAnother" /\ invoked.listed >= 2) =>
         /\ "game" \in DOMAIN invoked.outcome
         /\ invoked.outcome.game.collectionId # invoked.shown.collectionId

\* 'Choose Another' on a list of the two copies of one item, the first of
\* them displayed: the second is chosen
C30_Witness ==
  /\ invoked # NotInvoked
  /\ invoked.by = "handlePickAnother"
  /\ invoked.listed = 2
  /\ invoked.shown = Entry(1)
  /\ invoked.games = <<Entry(2)>>
  /\ invoked.shown.id = invoked.games[1].id
  /\ pickedGame = Entry(2)

====
